---- MODULE Spec2Model ----
(***************************************************************************)
(* The query-filtering pipeline of PROTEUS' DSWx-HLS scaling script:       *)
(* StudyAreaQuery (study_area_granules.py) driven by main                  *)
(* (bin/dswx_scaling_script.py).                                           *)
(*                                                                         *)
(* Strings are modelled as sequences of tokens.  A token stands for a      *)
(* fixed run of characters ("2020160" is the seven characters YYYYDDD,     *)
(* "T" and "." are single characters), so that split('.'), the slices      *)
(* [1:] and [:7], the substring test `in` and string concatenation are     *)
(* computed on the token sequence as the code computes them on the         *)
(* characters.                                                             *)
(*                                                                         *)
(* study_area_granules.py line 189 opens the attribute chain with `elif`;  *)
(* it is read as the `if` that heads the chain (lines 189, 195), followed  *)
(* by the separate `if` of line 201.                                       *)
(***************************************************************************)
EXTENDS Integers, Sequences, FiniteSets, TLC

\* ------------------------------------------------------------------ bounds
MaxItems == 2          \* length of the catalog response in Spec
MaxSameDayItems == 4   \* length of the catalog response in SpecSameDay

\* --------------------------------------------------------------- the catalog
Sensors == {"L30", "S30"}
Dates == {"2020160", "2020015"}
Times == {"183142", "214936"}

\* HLS naming format, e.g. 'HLS.L30.T11TLH.2020160T183142.v2.0'
GranuleId(sensor, tile, date, time) ==
    <<"HLS", ".", sensor, ".", "T", tile, ".", date, "T", time, ".", "v2", ".", "0">>

\* properties['datetime'] of the acquisition, e.g. 2021-01-09T19:03:23.352Z
DatetimeOf(date, time) ==
    CASE date = "2020160" -> <<"2020", "-", "06", "-", "08", "T", time, "Z">>
      [] date = "2020015" -> <<"2020", "-", "01", "-", "15", "T", time, "Z">>

\* The bands of an item of each collection the script asks for, and the
\* asset that holds the metadata document.
BandsOf(sensor) == IF sensor = "L30" THEN <<"B05", "Fmask">> ELSE <<"B8A", "Fmask">>

\* assets[band].href, e.g. https://.../HLS.L30.T11TLH.2020160T183142.v2.0.B05.tif
Href(id, band) == <<"https:", "/", "lp-prod-protected", "/">> \o id \o <<".", band, ".", "tif">>

\* i.assets: a dict from asset name to href.
AssetsOf(sensor, id) ==
    [k \in 1..3 |->
        LET band == (BandsOf(sensor) \o <<"metadata">>)[k]
        IN  [key |-> band, val |-> Href(id, band)]]

\* A pystac item: its id, its properties['datetime'] and its assets.
Item(sensor, tile, date, time) ==
    [id |-> GranuleId(sensor, tile, date, time),
     datetime |-> DatetimeOf(date, time),
     assets |-> AssetsOf(sensor, GranuleId(sensor, tile, date, time))]

\* Tile 11TLH on 8 June 2020 seen by both sensors, twice each; the same tile
\* on 15 January 2020 seen once by both sensors; tile 04WFT on 8 June 2020.
Catalog ==
    {Item(s, "11TLH", "2020160", tm) : s \in Sensors, tm \in Times}
    \cup {Item(s, "11TLH", "2020015", "183142") : s \in Sensors}
    \cup {Item("S30", "04WFT", "2020160", "183142")}

\* Sequences of distinct elements of S, of length at most n.
RECURSIVE DistinctSeqs(_, _)
DistinctSeqs(S, n) ==
    IF n = 0 \/ S = {} THEN {<<>>}
    ELSE {<<>>} \cup UNION {{<<x>> \o r : r \in DistinctSeqs(S \ {x}, n - 1)} : x \in S}

\* ------------------------------------------------------------ string helpers
\* str.split('.')
RECURSIVE SplitFrom(_, _, _, _)
SplitFrom(s, i, cur, acc) ==
    IF i > Len(s) THEN Append(acc, cur)
    ELSE IF s[i] = "." THEN SplitFrom(s, i + 1, <<>>, Append(acc, cur))
    ELSE SplitFrom(s, i + 1, Append(cur, s[i]), acc)

Split(s) == SplitFrom(s, 1, <<>>, <<>>)

\* `needle in hay` for strings
Contains(hay, needle) ==
    \E off \in 0..(Len(hay) - Len(needle)) :
        \A k \in 1..Len(needle) : hay[off + k] = needle[k]

\* datetime.strptime(..., '%Y-%m-%dT%H:%M:%S.%fZ').month
MonthNum(tok) ==
    CASE tok = "01" -> 1 [] tok = "02" -> 2 [] tok = "03" -> 3 [] tok = "04" -> 4
      [] tok = "05" -> 5 [] tok = "06" -> 6 [] tok = "07" -> 7 [] tok = "08" -> 8
      [] tok = "09" -> 9 [] tok = "10" -> 10 [] tok = "11" -> 11 [] tok = "12" -> 12

\* Mutant: the month taken as zero-based.
MonthOf_zeroBased(datetime) == MonthNum(datetime[3]) - 1

MonthOf(datetime) == MonthNum(datetime[3])

\* int(attribute.find('Values').find('Value').text)
ParseInt(text) ==
    CASE text = "10" -> 10 [] text = "50" -> 50 [] text = "90" -> 90

\* -------------------------------------------------------- dict (ordered map)
\* A Python dict is a sequence of entries [key, val] in insertion order.
Keys(d) == [i \in 1..Len(d) |-> d[i].key]
KeySet(d) == {d[i].key : i \in 1..Len(d)}
HasKey(d, k) == k \in KeySet(d)
Get(d, k) == d[CHOOSE i \in 1..Len(d) : d[i].key = k].val

\* d[k] = v
DictSet(d, k, v) ==
    IF HasKey(d, k)
    THEN [i \in 1..Len(d) |-> IF d[i].key = k THEN [key |-> k, val |-> v] ELSE d[i]]
    ELSE Append(d, [key |-> k, val |-> v])

\* del d[k]
DictDel(d, k) == SelectSeq(d, LAMBDA e : e.key # k)

\* str.startswith(prefix)
StartsWith(s, prefix) ==
    Len(s) >= Len(prefix) /\ SubSeq(s, 1, Len(prefix)) = prefix

\* str.split(sep) for a one-character separator
RECURSIVE SplitOnFrom(_, _, _, _, _)
SplitOnFrom(s, sep, i, cur, acc) ==
    IF i > Len(s) THEN Append(acc, cur)
    ELSE IF s[i] = sep THEN SplitOnFrom(s, sep, i + 1, <<>>, Append(acc, cur))
    ELSE SplitOnFrom(s, sep, i + 1, Append(cur, s[i]), acc)

SplitOn(s, sep) == SplitOnFrom(s, sep, 1, <<>>, <<>>)

\* --------------------------------------------------------- input parameters
AllMonths == <<1, 2, 3, 4, 5, 6, 7, 8, 9, 10, 11, 12>>

\* The default of --months.
AllMonthNames ==
    <<"Jan", ",", "Feb", ",", "Mar", ",", "Apr", ",", "May", ",", "Jun", ",",
      "Jul", ",", "Aug", ",", "Sep", ",", "Oct", ",", "Nov", ",", "Dec">>

\* utility.month_to_num: datetime.strptime(month_name, '%b').month
month_to_num(month_name) ==
    CASE month_name = <<"Jan">> -> 1 [] month_name = <<"Feb">> -> 2
      [] month_name = <<"Mar">> -> 3 [] month_name = <<"Apr">> -> 4
      [] month_name = <<"May">> -> 5 [] month_name = <<"Jun">> -> 6
      [] month_name = <<"Jul">> -> 7 [] month_name = <<"Aug">> -> 8
      [] month_name = <<"Sep">> -> 9 [] month_name = <<"Oct">> -> 10
      [] month_name = <<"Nov">> -> 11 [] month_name = <<"Dec">> -> 12

\* The args dictionary of parse_args: what the command line gives for the
\* options the model follows.  Strings are token sequences, '' is <<>>.
CommandLine(job, run, query) ==
    [rerun |-> run.rerun,
     do_not_download |-> run.do_not_download,
     do_not_process |-> run.do_not_process,
     verbose |-> run.verbose,
     job_name |-> job,
     ncpu |-> 2,
     tile_id |-> query.tile_id,
     months |-> query.months,
     cloud_cover_max |-> query.cloud_cover_max,
     spatial_coverage_min |-> query.spatial_coverage_min,
     same_day |-> query.same_day,
     l30_v2_bands |-> <<"B05", ",", "Fmask">>,
     s30_v2_bands |-> <<"B8A", ",", "Fmask">>]

\* The query options of the command line.
QueryOptions ==
    [tile_id : {<<>>, <<"11TLH">>},
     months : {AllMonthNames, <<"Jun">>},
     cloud_cover_max : {100, 50},
     spatial_coverage_min : {0, 50},
     same_day : BOOLEAN]

\* A first run that downloads and processes, without --verbose.
PlainRun ==
    [rerun |-> FALSE, do_not_download |-> FALSE, do_not_process |-> FALSE,
     verbose |-> FALSE]

\* reformat_args: months, bands as lists.  (The bounding box computed from
\* the tile id only shapes the catalog request and is left out.)
reformat_args(a) ==
    [a EXCEPT
       !.months = LET names == SplitOn(a.months, ",")
                  IN  [k \in 1..Len(names) |-> month_to_num(names[k])],
       !.l30_v2_bands = LET bands == SplitOn(a.l30_v2_bands, ",")
                        IN  [k \in 1..Len(bands) |-> bands[k][1]],
       !.s30_v2_bands = LET bands == SplitOn(a.s30_v2_bands, ",")
                        IN  [k \in 1..Len(bands) |-> bands[k][1]]]

\* StudyAreaQuery.__init__: the filter parameters the object stores.
StudyAreaQuery(prepped_args) ==
    [tile_id |-> prepped_args.tile_id,
     months |-> prepped_args.months,
     cloud_cover_max |-> prepped_args.cloud_cover_max,
     spatial_coverage_min |-> prepped_args.spatial_coverage_min,
     same_day |-> prepped_args.same_day]

\* The filter parameters StudyAreaQuery.__init__ stores.  tile_id '' is <<>>.
ArgsSpace ==
    [tile_id : {<<>>, <<"11TLH">>},
     months : {AllMonths, <<6>>},
     cloud_cover_max : {100, 50},
     spatial_coverage_min : {0, 50},
     same_day : BOOLEAN]

\* ----------------------------------------------------------- persisted state
\* The keys of the args dictionary in the order json.dumps writes them, and
\* the Python type of each value.
ArgNames ==
    <<"rerun", "do_not_download", "do_not_process", "verbose", "job_name", "ncpu",
      "tile_id", "months", "cloud_cover_max", "spatial_coverage_min", "same_day",
      "l30_v2_bands", "s30_v2_bands">>

ArgTypes ==
    [rerun |-> "bool", do_not_download |-> "bool", do_not_process |-> "bool",
     verbose |-> "bool", job_name |-> "str", ncpu |-> "int", tile_id |-> "str",
     months |-> "str", cloud_cover_max |-> "int", spatial_coverage_min |-> "int",
     same_day |-> "bool", l30_v2_bands |-> "str", s30_v2_bands |-> "str"]

\* The decimal text of an int and back.
IntText(n) ==
    CASE n = 0 -> "0" [] n = 1 -> "1" [] n = 2 -> "2" [] n = 50 -> "50" [] n = 100 -> "100"

JsonNumber(text) ==
    CASE text = "0" -> 0 [] text = "1" -> 1 [] text = "2" -> 2 [] text = "50" -> 50
      [] text = "100" -> 100

\* json.dumps of one value: true / false, the decimal text, the quoted string.
JsonValue(type, v) ==
    CASE type = "bool" -> IF v THEN <<"true">> ELSE <<"false">>
      [] type = "int" -> <<IntText(v)>>
      [] type = "str" -> <<"\"">> \o v \o <<"\"">>

\* Mutant: a string keeps its quotes.
JsonParse_keepsQuotes(text) ==
    IF text = <<"true">> THEN TRUE
    ELSE IF text = <<"false">> THEN FALSE
    ELSE IF text[1] = "\"" THEN text
    ELSE JsonNumber(text[1])

\* json.loads of one value, told apart by its first token.
JsonParse(text) ==
    IF text[1] = "\"" THEN SubSeq(text, 2, Len(text) - 1)
    ELSE IF text = <<"true">> THEN TRUE
    ELSE IF text = <<"false">> THEN FALSE
    ELSE JsonNumber(text[1])

\* json.dumps(args): the members of the object, in order.
json_dumps(a) ==
    [k \in 1..Len(ArgNames) |->
        [key |-> ArgNames[k], val |-> JsonValue(ArgTypes[ArgNames[k]], a[ArgNames[k]])]]

\* json.load(f): the dictionary of the members of the object.
json_load(text) ==
    [name \in {text[k].key : k \in 1..Len(text)} |->
        JsonParse(text[CHOOSE k \in 1..Len(text) : text[k].key = name].val)]

\* pickle.dump of a dict of items: the opcode stream.  Each entry is its
\* key, then the item object, and SETITEMS stores the entries in order.
RECURSIVE PickleEntries(_, _)
PickleEntries(d, i) ==
    IF i > Len(d) THEN <<>>
    ELSE <<[op |-> "UNICODE", arg |-> d[i].key], [op |-> "OBJECT", arg |-> d[i].val]>>
         \o PickleEntries(d, i + 1)

pickle_dump(d) ==
    <<[op |-> "EMPTY_DICT", arg |-> <<>>], [op |-> "MARK", arg |-> <<>>]>>
    \o PickleEntries(d, 1)
    \o <<[op |-> "SETITEMS", arg |-> <<>>], [op |-> "STOP", arg |-> <<>>]>>

\* pickle.load: the unpickler runs the opcodes; stack holds what follows the
\* mark, result is the dict under it.
RECURSIVE Unpickle(_, _, _, _)
Unpickle(stream, i, stack, result) ==
    IF i > Len(stream) \/ stream[i].op = "STOP" THEN result
    ELSE IF stream[i].op \in {"UNICODE", "OBJECT"}
         THEN Unpickle(stream, i + 1, Append(stack, stream[i].arg), result)
    ELSE IF stream[i].op = "SETITEMS"
         THEN Unpickle(stream, i + 1, <<>>,
                       result \o [k \in 1..(Len(stack) \div 2) |->
                                    [key |-> stack[2 * k - 1], val |-> stack[2 * k]]])
    ELSE Unpickle(stream, i + 1, <<>>, <<>>)

pickle_load(stream) == Unpickle(stream, 1, <<>>, <<>>)

\* ------------------------------------------------------- metadata documents
\* The AdditionalAttribute elements of a granule's metadata .xml, in
\* document order: LANDSAT_PRODUCT_ID (L30 only), CLOUD_COVERAGE,
\* SPATIAL_COVERAGE.
Attribute(name, value) == [name |-> name, value |-> value]

\* Every value the metadata service may put in a document.
AnyDocument ==
    [products |-> {<<"LC08", "_L1TP">>, <<"LC09", "_L1TP">>, <<"LE07", "_L1TP">>},
     clouds |-> {<<"50">>, <<"90">>},
     spatials |-> {<<"10">>, <<"50">>}]

\* Landsat-8 and Landsat-9 products, one cloud and one spatial coverage.
LandsatDocument ==
    [products |-> {<<"LC08", "_L1TP">>, <<"LC09", "_L1TP">>},
     clouds |-> {<<"50">>},
     spatials |-> {<<"50">>}]

DocsFor(item_name, values) ==
    IF Contains(item_name, <<".", "L30", ".">>)
    THEN {<<Attribute("LANDSAT_PRODUCT_ID", p), Attribute("CLOUD_COVERAGE", c),
            Attribute("SPATIAL_COVERAGE", s)>> :
              p \in values.products, c \in values.clouds, s \in values.spatials}
    ELSE {<<Attribute("CLOUD_COVERAGE", c), Attribute("SPATIAL_COVERAGE", s)>> :
              c \in values.clouds, s \in values.spatials}

\* ------------------------------------------------------ same-day pairing
\* Mutant: the key is the tile alone, the date is dropped.
date_tileID_tileOnly(granule_id) == Tail(Split(granule_id)[3])

\* date + tileID of a granule id (lines 299-302).
date_tileID(granule_id) ==
    LET id_split == Split(granule_id)
        tileID == Tail(id_split[3])            \* [1:], remove "T"
        date == SubSeq(id_split[4], 1, 1)      \* [:7], keep only YYYYDDD
    IN  date \o tileID

\* Mutant: a second occurrence of a key overwrites it instead of removing it.
RECURSIVE ScanUnmatched_overwrites(_, _, _)
ScanUnmatched_overwrites(keys, i, unmatched) ==
    IF i > Len(keys) THEN unmatched
    ELSE ScanUnmatched_overwrites(keys, i + 1,
             DictSet(unmatched, date_tileID(keys[i]), keys[i]))

\* Mutant: a second occurrence of a key leaves the first one unmatched.
RECURSIVE ScanUnmatched_neverCloses(_, _, _)
ScanUnmatched_neverCloses(keys, i, unmatched) ==
    IF i > Len(keys) THEN unmatched
    ELSE LET k == date_tileID(keys[i])
         IN  ScanUnmatched_neverCloses(keys, i + 1,
                 IF HasKey(unmatched, k) THEN unmatched
                 ELSE DictSet(unmatched, k, keys[i]))

\* The scan of lines 296-307 from position i on, with the dict unmatched.
RECURSIVE ScanUnmatched(_, _, _)
ScanUnmatched(keys, i, unmatched) ==
    IF i > Len(keys) THEN unmatched
    ELSE LET k == date_tileID(keys[i])
         IN  ScanUnmatched(keys, i + 1,
                 IF HasKey(unmatched, k) THEN DictDel(unmatched, k)
                 ELSE DictSet(unmatched, k, keys[i]))

\* Mutant: the scan starts at the second key.
unmatched_granules_fromSecond(granules) == ScanUnmatched(Keys(granules), 2, <<>>)

unmatched_granules(granules) == ScanUnmatched(Keys(granules), 1, <<>>)

\* The deletions of lines 309-310.
RECURSIVE DelUnmatched(_, _, _)
DelUnmatched(granules, unmatched, i) ==
    IF i > Len(unmatched) THEN granules
    ELSE DelUnmatched(DictDel(granules, unmatched[i].val), unmatched, i + 1)

\* Mutant: the dict is replaced by the dict of unmatched granules.
filter_dict_for_S30_L30_sameDay_swapped(granules) == unmatched_granules(granules)

filter_dict_for_S30_L30_sameDay(granules) ==
    DelUnmatched(granules, unmatched_granules(granules), 1)

\* ---------------------------------------------------- initial population
\* Lines 128-144 from item i on.
RECURSIVE PopulateFrom(_, _, _, _)
PopulateFrom(items, i, granules, a) ==
    IF i > Len(items) THEN granules
    ELSE IF a.tile_id # <<>> /\ ~Contains(items[i].id, a.tile_id)
         THEN PopulateFrom(items, i + 1, granules, a)
    ELSE IF Len(a.months) < 12
            /\ ~(\E m \in 1..Len(a.months) : a.months[m] = MonthOf(items[i].datetime))
         THEN PopulateFrom(items, i + 1, granules, a)
    ELSE PopulateFrom(items, i + 1, DictSet(granules, items[i].id, items[i]), a)

filter_item_collection_and_populate_dict(items, a) == PopulateFrom(items, 1, <<>>, a)

\* ------------------------------------------------ metadata-dependent checks
\* Each check returns what the method returns ("ok": True, "removed": False
\* after del, "raise": an exception) and the dict it leaves.
\* Mutant: a product id that is neither LC08 nor LC09 is kept.
no_landsat9_req_ok_lenient(granules, attribute, item_name) ==
    IF StartsWith(attribute.value, <<"LC09">>)
    THEN [ret |-> "removed", granules |-> DictDel(granules, item_name)]
    ELSE [ret |-> "ok", granules |-> granules]

no_landsat9_req_ok(granules, attribute, item_name) ==
    IF StartsWith(attribute.value, <<"LC08">>)
    THEN [ret |-> "ok", granules |-> granules]
    ELSE IF StartsWith(attribute.value, <<"LC09">>)
    THEN [ret |-> "removed", granules |-> DictDel(granules, item_name)]
    ELSE [ret |-> "raise", granules |-> granules]

\* Mutant: False is returned without the del.
cloud_coverage_req_ok_keeps(granules, attribute, item_name, a) ==
    IF ParseInt(attribute.value[1]) > a.cloud_cover_max
    THEN [ret |-> "removed", granules |-> granules]
    ELSE [ret |-> "ok", granules |-> granules]

\* Mutant: >= for >.
cloud_coverage_req_ok_inclusive(granules, attribute, item_name, a) ==
    IF ParseInt(attribute.value[1]) >= a.cloud_cover_max
    THEN [ret |-> "removed", granules |-> DictDel(granules, item_name)]
    ELSE [ret |-> "ok", granules |-> granules]

cloud_coverage_req_ok(granules, attribute, item_name, a) ==
    IF ParseInt(attribute.value[1]) > a.cloud_cover_max
    THEN [ret |-> "removed", granules |-> DictDel(granules, item_name)]
    ELSE [ret |-> "ok", granules |-> granules]

spatial_coverage_req_ok(granules, attribute, item_name, a) ==
    IF ParseInt(attribute.value[1]) < a.spatial_coverage_min
    THEN [ret |-> "removed", granules |-> DictDel(granules, item_name)]
    ELSE [ret |-> "ok", granules |-> granules]

\* Mutant: the loop goes on to the next attribute after a check deleted
\* the record.
RECURSIVE AttributeLoop_noBreak(_, _, _, _, _)
AttributeLoop_noBreak(doc, i, granules, item_name, a) ==
    IF i > Len(doc) THEN [why |-> "none", granules |-> granules, dels |-> 0]
    ELSE
      LET attribute == doc[i]
          attr_name == attribute.name
          rest(g) == AttributeLoop_noBreak(doc, i + 1, g, item_name, a)
          after(r, why) ==
            IF r.ret = "removed"
            THEN [why |-> why, granules |-> rest(r.granules).granules,
                  dels |-> 1 + rest(r.granules).dels]
            ELSE rest(granules)
      IN
        IF attr_name = "LANDSAT_PRODUCT_ID" /\ Contains(item_name, <<".", "L30", ".">>)
        THEN LET r == no_landsat9_req_ok(granules, attribute, item_name)
             IN  IF r.ret = "raise" THEN [why |-> "raise", granules |-> granules, dels |-> 0]
                 ELSE after(r, "landsat9")
        ELSE IF attr_name = "CLOUD_COVERAGE" /\ a.cloud_cover_max < 100
        THEN after(cloud_coverage_req_ok(granules, attribute, item_name, a), "cloud")
        ELSE IF attr_name = "SPATIAL_COVERAGE" /\ a.spatial_coverage_min > 0
        THEN after(spatial_coverage_req_ok(granules, attribute, item_name, a), "spatial")
        ELSE rest(granules)

\* The loop over root.iter('AdditionalAttribute') of lines 180-204, from
\* attribute i on.  why is the check that ended the loop: "none" when the
\* loop ran to its end, "raise" when no_landsat9_req_ok raised; dels is the
\* number of del statements the loop ran.
RECURSIVE AttributeLoop(_, _, _, _, _)
AttributeLoop(doc, i, granules, item_name, a) ==
    IF i > Len(doc) THEN [why |-> "none", granules |-> granules, dels |-> 0]
    ELSE
      LET attribute == doc[i]
          attr_name == attribute.name
          spatial ==
            IF attr_name = "SPATIAL_COVERAGE" /\ a.spatial_coverage_min > 0
            THEN LET r == spatial_coverage_req_ok(granules, attribute, item_name, a)
                 IN  IF r.ret = "removed"
                     THEN [why |-> "spatial", granules |-> r.granules, dels |-> 1]
                     ELSE AttributeLoop(doc, i + 1, granules, item_name, a)
            ELSE AttributeLoop(doc, i + 1, granules, item_name, a)
      IN
        IF attr_name = "LANDSAT_PRODUCT_ID" /\ Contains(item_name, <<".", "L30", ".">>)
        THEN LET r == no_landsat9_req_ok(granules, attribute, item_name)
             IN  IF r.ret = "raise" THEN [why |-> "raise", granules |-> granules, dels |-> 0]
                 ELSE IF r.ret = "removed"
                 THEN [why |-> "landsat9", granules |-> r.granules, dels |-> 1]
                 ELSE spatial
        ELSE IF attr_name = "CLOUD_COVERAGE" /\ a.cloud_cover_max < 100
        THEN LET r == cloud_coverage_req_ok(granules, attribute, item_name, a)
             IN  IF r.ret = "removed"
                 THEN [why |-> "cloud", granules |-> r.granules, dels |-> 1]
                 ELSE spatial
        ELSE spatial

\* Mutant: the process never exits.
exit_if_no_downloads_never(granules) == Len(granules) < 0

\* exit_if_no_downloads: does sys.exit() end the process here?
exit_if_no_downloads(granules) == Len(granules) = 0

\* ------------------------------------------------------------------- state
VARIABLES
    pc,                    \* position of main / query_STAC_and_filter_results
    args,                  \* the filter parameters of the StudyAreaQuery object
    catalog_response,      \* what search.get_all_items() returns when it succeeds
    served,                \* the values the metadata service puts in documents
    attempt,               \* attempt of the loop of query_STAC (line 99)
    slept,                 \* seconds spent in time.sleep by query_STAC
    item_collection,       \* the item collection query_STAC returned
    granules_to_download,  \* self.granules_to_download
    todo,                  \* rest of list(self.granules_to_download.keys()), line 172
    num_removed,           \* num_removed_landsat9 / _cloud / _spatial
    metadata,              \* the metadata document fetched for each granule id
    last,                  \* granule id and loop exit of the last stage-3 record
    stages,                \* the filter stages run so far, in order
    after_populate,        \* the dict as initial population left it
    after_prefilter,       \* the dict as the first same-day filter left it
    after_metadata,        \* the dict as the metadata loop left it
    reported,              \* the counts printed by lines 209-227
    job_dir,               \* the files of the job directory <root_dir>/<job_name>
    pool_started,          \* download_and_process_granules was entered
    main_args,             \* the args dictionary of parse_args and main
    prepped_args,          \* main's prepped_args: <<>> while unbound, else <<it>>
    query_results,         \* main's query_results
    loaded_settings,       \* what json.load gave parse_args: <<>> or <<it>>
    persisted,             \* the args and Working Set main saved: <<>> or <<it>>
    fetch_failures,        \* metadata fetches of filter_query_dict that raised
    pool_pc,               \* position of download_and_process_granules
    list_of_granule_dirs,  \* list_of_granule_dirs of download_and_process_granules
    made_dirs,             \* the granule directories that exist under the job directory
    disk,                  \* the files under the granule directories, with their writer
    jobs,                  \* the calls of download_and_process_granule in the pool
    results,               \* what pool.starmap returned
    warned                 \* the summary warning of lines 113-121 was emitted

vars == <<pc, args, catalog_response, served, attempt, slept, item_collection,
          granules_to_download, todo, num_removed, metadata, last, stages,
          after_populate, after_prefilter, after_metadata, reported, job_dir,
          pool_started, main_args, prepped_args, query_results, loaded_settings,
          persisted, fetch_failures, pool_pc, list_of_granule_dirs, made_dirs, disk,
          jobs, results, warned>>

\* The variables of download_and_process_granules.
poolvars == <<pool_pc, list_of_granule_dirs, made_dirs, disk, jobs, results, warned>>

\* download_and_process_granules has not been called.
PoolIdle ==
    /\ pool_pc = "idle"
    /\ list_of_granule_dirs = <<>>
    /\ made_dirs = {}
    /\ disk = {}
    /\ jobs = <<>>
    /\ results = <<>>
    /\ warned = FALSE

\* The variables of parse_args and main.
mainvars == <<main_args, prepped_args, query_results, loaded_settings, persisted>>

NoCounts == [landsat9 |-> 0, cloud |-> 0, spatial |-> 0]

\* A first run that got as far as the catalog query: the arguments are
\* verified and reformatted and the StudyAreaQuery object is constructed
\* (main, lines 29-54).
InitWith(arguments, responses, values) ==
    /\ pc = "query"
    /\ main_args \in {CommandLine(<<"StudyArea">>, [PlainRun EXCEPT !.do_not_process = p], q) :
                         q \in QueryOptions, p \in arguments.do_not_process}
    /\ prepped_args = <<reformat_args(main_args)>>
    /\ args = StudyAreaQuery(prepped_args[1])
    /\ args \in arguments.filters
    /\ PoolIdle
    /\ fetch_failures = 0
    /\ query_results = <<>>
    /\ loaded_settings = <<>>
    /\ persisted = <<>>
    /\ catalog_response \in responses
    /\ served = values
    /\ attempt = 1
    /\ slept = 0
    /\ item_collection = <<>>
    /\ granules_to_download = <<>>
    /\ todo = <<>>
    /\ num_removed = NoCounts
    /\ metadata = <<>>
    /\ last = [item_name |-> <<>>, why |-> "none"]
    /\ stages = <<>>
    /\ after_populate = <<>>
    /\ after_prefilter = <<>>
    /\ after_metadata = <<>>
    /\ reported = <<>>
    /\ job_dir = <<>>
    /\ pool_started = FALSE

\* Any parameters, any response of at most MaxItems granules of Catalog.
Init ==
    InitWith([filters |-> ArgsSpace, do_not_process |-> {FALSE}],
             DistinctSeqs(Catalog, MaxItems), AnyDocument)

\* --same-day and no other filter parameter, any response of at most
\* MaxSameDayItems granules of Catalog, Landsat-8 or Landsat-9 documents.
SameDayArgs ==
    {a \in ArgsSpace : /\ a.same_day /\ a.tile_id = <<>> /\ a.months = AllMonths
                       /\ a.cloud_cover_max = 100 /\ a.spatial_coverage_min = 0}

InitSameDay ==
    InitWith([filters |-> SameDayArgs, do_not_process |-> {FALSE}],
             DistinctSeqs(Catalog, MaxSameDayItems), LandsatDocument)

\* ----------------------------------------------------------------- actions
\* query_STAC, lines 99-117: search.get_all_items() succeeds.
QuerySTAC ==
    /\ pc = "query"
    /\ item_collection' = catalog_response
    /\ pc' = "populate"
    /\ UNCHANGED <<fetch_failures, args, catalog_response, served, attempt, slept,
                   granules_to_download, todo, num_removed, metadata, last, stages,
                   after_populate, after_prefilter, reported, job_dir, pool_started,
                   after_metadata>>
    /\ UNCHANGED mainvars
    /\ UNCHANGED poolvars

\* Mutant: the second failure already ends the process.
QuerySTACFails_twoAttempts ==
    /\ pc = "query"
    /\ IF attempt < 2
       THEN /\ attempt' = attempt + 1
            /\ slept' = slept + 5
            /\ pc' = pc
       ELSE /\ pc' = "exited"
            /\ UNCHANGED <<attempt, slept>>
    /\ UNCHANGED <<fetch_failures, args, catalog_response, served, item_collection,
                   granules_to_download, todo, num_removed, metadata, last, stages,
                   after_populate, after_prefilter, reported, job_dir, pool_started,
                   after_metadata>>
    /\ UNCHANGED mainvars
    /\ UNCHANGED poolvars

\* query_STAC, lines 103-111: search.get_all_items() raises.
QuerySTACFails ==
    /\ pc = "query"
    /\ IF attempt < 3
       THEN /\ attempt' = attempt + 1
            /\ slept' = slept + 5
            /\ pc' = pc
       ELSE /\ pc' = "exited"
            /\ UNCHANGED <<attempt, slept>>
    /\ UNCHANGED <<fetch_failures, args, catalog_response, served, item_collection,
                   granules_to_download, todo, num_removed, metadata, last, stages,
                   after_populate, after_prefilter, reported, job_dir, pool_started,
                   after_metadata>>
    /\ UNCHANGED mainvars
    /\ UNCHANGED poolvars

\* filter_item_collection_and_populate_dict, lines 120-154.
Populate ==
    /\ pc = "populate"
    /\ granules_to_download' =
           filter_item_collection_and_populate_dict(item_collection, args)
    /\ after_populate' = granules_to_download'
    /\ stages' = Append(stages, "populate")
    /\ pc' = IF exit_if_no_downloads(granules_to_download') THEN "exited"
             ELSE "same_day_pre"
    /\ UNCHANGED <<fetch_failures, args, catalog_response, served, attempt, slept, item_collection,
                   todo, num_removed, metadata, last, after_prefilter, reported,
                   job_dir, pool_started, after_metadata>>
    /\ UNCHANGED mainvars
    /\ UNCHANGED poolvars

\* Mutant: the keys the metadata loop runs over are taken before the first
\* same-day filter.
PreFilter_keysBefore ==
    /\ pc = "same_day_pre"
    /\ granules_to_download' =
           IF args.same_day THEN filter_dict_for_S30_L30_sameDay(granules_to_download)
           ELSE granules_to_download
    /\ after_prefilter' = granules_to_download'
    /\ stages' = IF args.same_day THEN Append(stages, "same_day_pre") ELSE stages
    /\ IF args.same_day /\ exit_if_no_downloads(granules_to_download')
       THEN /\ pc' = "exited"
            /\ UNCHANGED <<todo, num_removed>>
       ELSE /\ todo' = Keys(granules_to_download)
            /\ num_removed' = NoCounts
            /\ pc' = IF todo' = <<>> THEN "report" ELSE "metadata"
    /\ UNCHANGED <<fetch_failures, args, catalog_response, served, attempt, slept, item_collection,
                   metadata, last, after_populate, reported, job_dir, pool_started,
                   after_metadata>>
    /\ UNCHANGED mainvars
    /\ UNCHANGED poolvars

\* filter_query_dict, lines 162-172: the first same-day filter, the counters
\* and the snapshot of the keys the metadata loop runs over.
PreFilter ==
    /\ pc = "same_day_pre"
    /\ granules_to_download' =
           IF args.same_day THEN filter_dict_for_S30_L30_sameDay(granules_to_download)
           ELSE granules_to_download
    /\ after_prefilter' = granules_to_download'
    /\ stages' = IF args.same_day THEN Append(stages, "same_day_pre") ELSE stages
    /\ IF args.same_day /\ exit_if_no_downloads(granules_to_download')
       THEN /\ pc' = "exited"
            /\ UNCHANGED <<todo, num_removed>>
       ELSE /\ todo' = Keys(granules_to_download')
            /\ num_removed' = NoCounts
            /\ pc' = IF todo' = <<>> THEN "report" ELSE "metadata"
    /\ UNCHANGED <<fetch_failures, args, catalog_response, served, attempt, slept, item_collection,
                   metadata, last, after_populate, reported, job_dir, pool_started,
                   after_metadata>>
    /\ UNCHANGED mainvars
    /\ UNCHANGED poolvars

\* filter_query_dict, lines 172-206: one iteration of the metadata loop.
MetadataRecord ==
    /\ pc = "metadata"
    /\ todo # <<>>
    /\ \E doc \in DocsFor(Head(todo), served) :
         LET item_name == Head(todo)
             r == AttributeLoop(doc, 1, granules_to_download, item_name, args)
         IN  /\ metadata' = DictSet(metadata, item_name, doc)
             /\ last' = [item_name |-> item_name, why |-> r.why]
             /\ stages' = IF Len(stages) > 0 /\ stages[Len(stages)] = "metadata"
                          THEN stages ELSE Append(stages, "metadata")
             /\ IF r.why = "raise"
                THEN /\ pc' = "crashed"
                     /\ UNCHANGED <<granules_to_download, todo, num_removed>>
                ELSE /\ granules_to_download' = r.granules
                     /\ num_removed' =
                            IF r.why = "none" THEN num_removed
                            ELSE [num_removed EXCEPT ![r.why] = @ + 1]
                     /\ todo' = Tail(todo)
                     /\ pc' = IF exit_if_no_downloads(r.granules) THEN "exited"
                              ELSE IF todo' = <<>> THEN "report" ELSE "metadata"
    /\ UNCHANGED <<fetch_failures, args, catalog_response, served, attempt, slept, item_collection,
                   after_populate, after_prefilter, reported, job_dir, pool_started,
                   after_metadata>>
    /\ UNCHANGED mainvars
    /\ UNCHANGED poolvars

\* filter_query_dict, lines 175-178: requests.get or ET.fromstring raises.
MetadataFetchFails ==
    /\ pc = "metadata"
    /\ todo # <<>>
    /\ fetch_failures' = fetch_failures + 1
    /\ pc' = "crashed"
    /\ UNCHANGED <<args, catalog_response, served, attempt, slept, item_collection,
                   granules_to_download, todo, num_removed, metadata, last, stages,
                   after_populate, after_prefilter, reported, job_dir, pool_started,
                   after_metadata>>
    /\ UNCHANGED mainvars
    /\ UNCHANGED poolvars

\* Mutant: the same-day filter is not run again.
FinishFilter_noRefilter ==
    /\ pc = "report"
    /\ pc' = "persist"
    /\ after_metadata' = granules_to_download
    /\ reported' = <<Len(granules_to_download)>>
    /\ UNCHANGED <<fetch_failures, args, catalog_response, served, attempt, slept, item_collection,
                   granules_to_download, todo, num_removed, metadata, last, stages,
                   after_populate, after_prefilter, job_dir, pool_started>>
    /\ UNCHANGED mainvars
    /\ UNCHANGED poolvars

\* filter_query_dict, lines 208-234: the printed counts and the second
\* same-day filter.
FinishFilter ==
    /\ pc = "report"
    /\ reported' =
           LET n == Len(granules_to_download)
           IN  <<n - num_removed.landsat9>>
               \o (IF args.cloud_cover_max < 100
                   THEN <<n - num_removed.landsat9 - num_removed.cloud>> ELSE <<>>)
               \o (IF args.spatial_coverage_min > 0
                   THEN <<n - num_removed.landsat9 - num_removed.cloud
                            - num_removed.spatial>> ELSE <<>>)
    /\ granules_to_download' =
           IF args.same_day THEN filter_dict_for_S30_L30_sameDay(granules_to_download)
           ELSE granules_to_download
    /\ after_metadata' = granules_to_download
    /\ stages' = IF args.same_day THEN Append(stages, "same_day_post") ELSE stages
    /\ pc' = IF args.same_day /\ exit_if_no_downloads(granules_to_download')
             THEN "exited" ELSE "persist"
    /\ UNCHANGED <<fetch_failures, args, catalog_response, served, attempt, slept, item_collection, todo,
                   num_removed, metadata, last, after_populate, after_prefilter,
                   job_dir, pool_started>>
    /\ UNCHANGED mainvars
    /\ UNCHANGED poolvars

\* get_list_of_urls: the hrefs of the bands asked for, L30 or S30.
get_list_of_urls(granules, granule_id, l30_v2_bands, s30_v2_bands) ==
    LET bands == IF Split(granule_id)[2] = <<"L30">> THEN l30_v2_bands ELSE s30_v2_bands
    IN  [b \in 1..Len(bands) |-> Get(Get(granules, granule_id).assets, bands[b])]

\* save_all_urls_to_file: the url lists of the granules, one after the other.
RECURSIVE AllUrls(_, _, _)
AllUrls(granules, i, a) ==
    IF i > Len(granules) THEN <<>>
    ELSE get_list_of_urls(granules, granules[i].key, a.l30_v2_bands, a.s30_v2_bands)
         \o AllUrls(granules, i + 1, a)

\* The files main writes into a new job directory: settings.json and the
\* three files of save_query_results_to_output_files.
JobFiles(a, prepped, granules) ==
    <<[key |-> "settings.json", val |-> json_dumps(a)],
      [key |-> "dswx_hls_filtered_granules.txt", val |-> Keys(granules)],
      [key |-> "dswx_hls_filtered_urls.txt", val |-> AllUrls(granules, 1, prepped)],
      [key |-> "query_results.pickle", val |-> pickle_dump(granules)]>>

\* main, lines 62-84: the job directory, settings.json and the query results.
Persist ==
    /\ pc = "persist"
    /\ job_dir' = JobFiles(main_args, prepped_args[1], granules_to_download)
    /\ persisted' = <<[args |-> main_args, granules |-> granules_to_download]>>
    /\ pc' = "download"
    /\ UNCHANGED <<args, catalog_response, served, attempt, slept, item_collection,
                   granules_to_download, todo, num_removed, metadata, last, stages,
                   after_populate, after_prefilter, reported, pool_started,
                   after_metadata>>
    /\ UNCHANGED <<fetch_failures, main_args, prepped_args, query_results, loaded_settings>>
    /\ UNCHANGED poolvars

\* main, lines 87-108: the exit of --do-not-download, the Working Set of the
\* run or the one loaded from query_results.pickle, and the call of
\* download_and_process_granules, whose argument prepped_args is unbound
\* when lines 32-84 were skipped.
Download ==
    /\ pc = "download"
    /\ IF main_args.do_not_download
       THEN /\ pc' = "exited"
            /\ UNCHANGED <<query_results, pool_started, pool_pc>>
       ELSE /\ query_results' =
                   IF main_args.rerun
                   THEN pickle_load(Get(job_dir, "query_results.pickle"))
                   ELSE granules_to_download
            /\ IF prepped_args = <<>>
               THEN pc' = "crashed" /\ UNCHANGED <<pool_started, pool_pc>>
               ELSE pc' = "done" /\ pool_started' = TRUE /\ pool_pc' = "dirs"
    /\ UNCHANGED <<args, catalog_response, served, attempt, slept, item_collection,
                   granules_to_download, todo, num_removed, metadata, last, stages,
                   after_populate, after_prefilter, reported, job_dir, after_metadata>>
    /\ UNCHANGED <<fetch_failures, main_args, prepped_args, loaded_settings, persisted>>
    /\ UNCHANGED <<list_of_granule_dirs, made_dirs, disk, jobs, results, warned>>

Next ==
    \/ QuerySTAC
    \/ QuerySTACFails
    \/ Populate
    \/ PreFilter
    \/ MetadataRecord
    \/ MetadataFetchFails
    \/ FinishFilter
    \/ Persist
    \/ Download

Spec == Init /\ [][Next]_vars

\* ------------------------------------------------- a first run and its rerun
\* The StudyAreaQuery object does not exist yet.
NoStudyArea ==
    [tile_id |-> <<>>, months |-> <<>>, cloud_cover_max |-> 0,
     spatial_coverage_min |-> 0, same_day |-> FALSE]

\* The query options a command line leaves at their defaults.
DefaultQuery ==
    [tile_id |-> <<>>, months |-> AllMonthNames, cloud_cover_max |-> 100,
     spatial_coverage_min |-> 0, same_day |-> FALSE]

\* Landsat-8 products that pass every filter.
Landsat8Document ==
    [products |-> {<<"LC08", "_L1TP">>}, clouds |-> {<<"50">>}, spatials |-> {<<"50">>}]

\* First runs with --do-not-download: a tile, a month and --same-day or not.
FirstRuns ==
    {CommandLine(<<"StudyArea">>, [PlainRun EXCEPT !.do_not_download = TRUE], q) :
        q \in {o \in QueryOptions : o.cloud_cover_max = 100 /\ o.spatial_coverage_min = 0}}

\* Command lines with --rerun for the same job name.
Reruns ==
    {CommandLine(<<"StudyArea">>,
                 [rerun |-> TRUE, do_not_download |-> d, do_not_process |-> p,
                  verbose |-> v],
                 DefaultQuery) : d \in BOOLEAN, p \in BOOLEAN, v \in BOOLEAN}

\* The memory of a process that has just parsed its command line.
Started(command_line) ==
    /\ pc = "parse"
    /\ main_args = command_line
    /\ fetch_failures = 0
    /\ args = NoStudyArea
    /\ attempt = 1
    /\ slept = 0
    /\ item_collection = <<>>
    /\ granules_to_download = <<>>
    /\ todo = <<>>
    /\ num_removed = NoCounts
    /\ metadata = <<>>
    /\ last = [item_name |-> <<>>, why |-> "none"]
    /\ stages = <<>>
    /\ after_populate = <<>>
    /\ after_prefilter = <<>>
    /\ after_metadata = <<>>
    /\ reported = <<>>
    /\ pool_started = FALSE
    /\ prepped_args = <<>>
    /\ query_results = <<>>
    /\ loaded_settings = <<>>

\* A first run at the end of line 341 of parse_args, no job directory yet.
InitRerun ==
    /\ \E command_line \in FirstRuns : Started(command_line)
    /\ PoolIdle
    /\ catalog_response \in DistinctSeqs(Catalog, MaxItems)
    /\ served = Landsat8Document
    /\ job_dir = <<>>
    /\ persisted = <<>>

\* Mutant: the settings of settings.json are taken as they are.
ParseArgs_noOverride ==
    /\ pc = "parse"
    /\ IF ~main_args.rerun
       THEN pc' = "verify" /\ UNCHANGED <<main_args, loaded_settings>>
       ELSE IF ~HasKey(job_dir, "settings.json")
       THEN pc' = "crashed" /\ UNCHANGED <<main_args, loaded_settings>>
       ELSE LET loaded == json_load(Get(job_dir, "settings.json"))
            IN  /\ loaded_settings' = <<loaded>>
                /\ main_args' = [loaded EXCEPT !.rerun = TRUE]
                /\ pc' = "verify"
    /\ UNCHANGED <<fetch_failures, args, catalog_response, served, attempt, slept, item_collection,
                   granules_to_download, todo, num_removed, metadata, last, stages,
                   after_populate, after_prefilter, after_metadata, reported, job_dir,
                   pool_started, prepped_args, query_results, persisted>>
    /\ UNCHANGED poolvars

\* parse_args, lines 354-385: with --rerun the args are replaced by the
\* settings.json of the job directory, except the five options the command
\* line of the rerun gives.  A missing directory or file raises.
ParseArgs ==
    /\ pc = "parse"
    /\ IF ~main_args.rerun
       THEN pc' = "verify" /\ UNCHANGED <<main_args, loaded_settings>>
       ELSE IF ~HasKey(job_dir, "settings.json")
       THEN pc' = "crashed" /\ UNCHANGED <<main_args, loaded_settings>>
       ELSE LET loaded == json_load(Get(job_dir, "settings.json"))
            IN  /\ loaded_settings' = <<loaded>>
                /\ main_args' = [loaded EXCEPT
                                   !.rerun = TRUE,
                                   !.job_name = main_args.job_name,
                                   !.do_not_download = main_args.do_not_download,
                                   !.do_not_process = main_args.do_not_process,
                                   !.verbose = main_args.verbose]
                /\ pc' = "verify"
    /\ UNCHANGED <<fetch_failures, args, catalog_response, served, attempt, slept, item_collection,
                   granules_to_download, todo, num_removed, metadata, last, stages,
                   after_populate, after_prefilter, after_metadata, reported, job_dir,
                   pool_started, prepped_args, query_results, persisted>>
    /\ UNCHANGED poolvars

\* Mutant: only settings.json is asked for.
rerun_files_exist_settingsOnly(dir) == HasKey(dir, "settings.json")

\* verify_input_args, lines 423-429: the files a rerun needs exist.
rerun_files_exist(dir) ==
    HasKey(dir, "settings.json") /\ HasKey(dir, "query_results.pickle")

\* main, lines 29-54: verify_input_args, whose asserts of lines 422-429
\* want both files of a rerun; without --rerun, reformat_args and the
\* StudyAreaQuery object.
MainSetup ==
    /\ pc = "verify"
    /\ IF main_args.rerun
       THEN /\ pc' = IF rerun_files_exist(job_dir) THEN "download" ELSE "crashed"
            /\ UNCHANGED <<prepped_args, args>>
       ELSE /\ prepped_args' = <<reformat_args(main_args)>>
            /\ args' = StudyAreaQuery(prepped_args'[1])
            /\ pc' = "query"
    /\ UNCHANGED <<fetch_failures, catalog_response, served, attempt, slept, item_collection,
                   granules_to_download, todo, num_removed, metadata, last, stages,
                   after_populate, after_prefilter, after_metadata, reported, job_dir,
                   pool_started, main_args, query_results, loaded_settings, persisted>>
    /\ UNCHANGED poolvars

\* The process has ended.
Ended == pc \in {"exited", "crashed", "done"}

\* Between the two runs the user removes one of the files --rerun needs.
RemoveArtifact ==
    /\ Ended
    /\ ~main_args.rerun
    /\ \E name \in {"settings.json", "query_results.pickle"} :
         /\ HasKey(job_dir, name)
         /\ job_dir' = DictDel(job_dir, name)
    /\ UNCHANGED <<fetch_failures, pc, args, catalog_response, served, attempt, slept, item_collection,
                   granules_to_download, todo, num_removed, metadata, last, stages,
                   after_populate, after_prefilter, after_metadata, reported,
                   pool_started>>
    /\ UNCHANGED mainvars
    /\ UNCHANGED poolvars

\* The script is started again with --rerun when the first process and its
\* pool have ended: a new process, the same disk.
StartRerun ==
    /\ Ended
    /\ pool_pc \in {"idle", "finished", "raised"}
    /\ ~main_args.rerun
    /\ \E command_line \in Reruns :
         /\ pc' = "parse"
         /\ main_args' = command_line
    /\ fetch_failures' = 0
    /\ args' = NoStudyArea
    /\ attempt' = 1
    /\ slept' = 0
    /\ item_collection' = <<>>
    /\ granules_to_download' = <<>>
    /\ todo' = <<>>
    /\ num_removed' = NoCounts
    /\ metadata' = <<>>
    /\ last' = [item_name |-> <<>>, why |-> "none"]
    /\ stages' = <<>>
    /\ after_populate' = <<>>
    /\ after_prefilter' = <<>>
    /\ after_metadata' = <<>>
    /\ reported' = <<>>
    /\ pool_started' = FALSE
    /\ prepped_args' = <<>>
    /\ query_results' = <<>>
    /\ loaded_settings' = <<>>
    /\ UNCHANGED <<catalog_response, served, job_dir, persisted>>
    /\ pool_pc' = "idle"
    /\ list_of_granule_dirs' = <<>>
    /\ jobs' = <<>>
    /\ results' = <<>>
    /\ warned' = FALSE
    /\ UNCHANGED <<made_dirs, disk>>

NextRerun ==
    \/ ParseArgs
    \/ MainSetup
    \/ QuerySTAC
    \/ QuerySTACFails
    \/ Populate
    \/ PreFilter
    \/ MetadataRecord
    \/ MetadataFetchFails
    \/ FinishFilter
    \/ Persist
    \/ Download
    \/ RemoveArtifact
    \/ StartRerun

SpecRerun == InitRerun /\ [][NextRerun]_vars

\* ------------------------------------------- download_and_process_granules
MaxPoolItems == 2      \* length of the catalog response in SpecPool

\* datetime.strftime(datetime.strptime(date, '%Y%j'), '%Y%m%d')
YearDayToDate(date) ==
    CASE date = "2020160" -> "20200608"
      [] date = "2020015" -> "20200115"

\* Mutant: the "T" is removed from the tile field.
get_sensor_tileID_date_stripped(granule_name) ==
    LET id_split == Split(granule_name)
    IN  [sensor |-> id_split[2],
         tileID |-> Tail(id_split[3]),
         date |-> <<YearDayToDate(id_split[4][1])>>]

\* utility.get_sensor_tileID_date: the fields of split('.'), the date
\* cut to YYYYDDD and converted to YYYYMMDD.
get_sensor_tileID_date(granule_name) ==
    LET id_split == Split(granule_name)
    IN  [sensor |-> id_split[2],
         tileID |-> id_split[3],
         date |-> <<YearDayToDate(id_split[4][1])>>]

\* os.path.join of a path and a name
Join(path, name) == path \o <<"/">> \o name

\* create_dir_structure(job_dir, [date, tileID, sensor]): the path it
\* returns, relative to the job directory.
create_dir_structure(list_of_subdirs) ==
    Join(Join(list_of_subdirs[1], list_of_subdirs[2]), list_of_subdirs[3])

\* download_and_process_granules, lines 76-77: the directory of a granule.
granule_dir_of(granule_id) ==
    LET g == get_sensor_tileID_date(granule_id)
    IN  create_dir_structure(<<g.date, g.tileID, g.sensor>>)

\* os.path.basename(url): what follows the last '/'.
RECURSIVE Basename(_)
Basename(url) ==
    IF url = <<>> \/ url[Len(url)] = "/" THEN <<>>
    ELSE Append(Basename(SubSeq(url, 1, Len(url) - 1)), url[Len(url)])

\* download_and_process_granules, line 67.
list_of_granule_ids == Keys(query_results)

\* download_and_process_granules, lines 92-94: the urls of granule i.
all_lists_of_urls(i) ==
    get_list_of_urls(query_results, list_of_granule_ids[i],
                     prepped_args[1].l30_v2_bands, prepped_args[1].s30_v2_bands)

\* download_granule_data, line 208: where url u of job i is saved.
file_name(i, u) ==
    Join(Join(list_of_granule_dirs[i], <<"input_dir">>), Basename(all_lists_of_urls(i)[u]))

\* create_runconfig_yaml, line 287.
runconfig_path(i) == Join(list_of_granule_dirs[i], <<"dswx_hls_runconfig.yaml">>)

\* build_product_id_str: OPERA_DSWx-HLS_<sensor>_30_<tile>_<date>T<hhmmss>Z
\* (the generation time is left out).
build_product_id_str(granule_id) ==
    LET g == get_sensor_tileID_date(granule_id)
        hhmmss == Split(granule_id)[4][3]
    IN  <<"OPERA_DSWx-HLS", "_">> \o g.sensor \o <<"_30_">> \o g.tileID
        \o <<"_">> \o g.date \o <<"T", hhmmss, "Z">>

\* A product dswx_hls.py writes into output_dir for granule i.
product_path(i) ==
    Join(Join(list_of_granule_dirs[i], <<"output_dir">>),
         build_product_id_str(list_of_granule_ids[i]))

Exists(path) == \E f \in disk : f.path = path

\* open(path, 'w').write(...) by job i: the file is created or replaced.
Written(files, path, i) == {f \in files : f.path # path} \cup {[path |-> path, by |-> i]}

\* The files directly in directory dir.
FilesIn(files, dir) ==
    {f \in files : Len(f.path) > Len(dir) + 1 /\ SubSeq(f.path, 1, Len(dir) + 1) = Join(dir, <<>>)
                    /\ ~Contains(SubSeq(f.path, Len(dir) + 2, Len(f.path)), <<"/">>)}

\* What the successive calls of requests.get of one download2file do:
\* answer with the data, answer with a 4XX or 5XX status, or raise.
NetOutcomes ==
    {<<"ok", "ok", "ok">>, <<"status", "ok", "ok">>, <<"raises", "ok", "ok">>,
     <<"raises", "raises", "ok">>, <<"raises", "raises", "raises">>}

\* utility.download2file, lines 65-88, from attempt n on: an
\* exception of requests.get sleeps when n < 3 and then returns False
\* (line 78); an answer is written to the file when its status is good.
download2file(net, n, secs) ==
    IF net[n] = "raises"
    THEN [ret |-> FALSE, wrote |-> FALSE, attempt |-> n,
          slept |-> IF n < 3 THEN secs + 5 ELSE secs]
    ELSE [ret |-> net[n] = "ok", wrote |-> net[n] = "ok",
          attempt |-> n, slept |-> secs]

\* A call of download_and_process_granule the pool has not started.
QueuedJob ==
    [pc |-> "queued", url |-> 1, net |-> <<>>, fetch |-> <<>>, missing |-> FALSE,
     ran_tool |-> FALSE, result |-> "none"]

Running(i) == jobs[i].pc \in {"fetch", "config", "clean", "process"}
Finished(i) == jobs[i].pc \in {"returned", "raised"}

\* The variables main and the filter pipeline own.
runvars ==
    <<pc, args, catalog_response, served, attempt, slept, item_collection,
      granules_to_download, todo, num_removed, metadata, last, stages, after_populate,
      after_prefilter, after_metadata, reported, pool_started, fetch_failures>>

\* The lines of granule_dir.txt: a path and whether its newline is there.
Listing == IF HasKey(job_dir, "granule_dir.txt") THEN Get(job_dir, "granule_dir.txt") ELSE <<>>

\* download_and_process_granules, lines 75-85: one iteration of the loop
\* that makes the directory of a granule and appends it to granule_dir.txt.
CreateGranuleDir ==
    /\ pool_pc = "dirs"
    /\ Len(list_of_granule_dirs) < Len(list_of_granule_ids)
    /\ LET granule_id == list_of_granule_ids[Len(list_of_granule_dirs) + 1]
           granule_dir == granule_dir_of(granule_id)
       IN  /\ made_dirs' = made_dirs \cup {granule_dir}
           /\ list_of_granule_dirs' = Append(list_of_granule_dirs, granule_dir)
           /\ job_dir' = DictSet(job_dir, "granule_dir.txt",
                                 Append(Listing, [line |-> granule_dir, newline |-> TRUE]))
    /\ UNCHANGED <<pool_pc, disk, jobs, results, warned>>
    /\ UNCHANGED <<runvars, mainvars>>

\* Mutant: the pool is started after the first directory.
StartPool_early ==
    /\ pool_pc = "dirs"
    /\ Len(list_of_granule_dirs) >= 1
    /\ list_of_granule_dirs' =
           [i \in 1..Len(list_of_granule_ids) |-> granule_dir_of(list_of_granule_ids[i])]
    /\ jobs' = [i \in 1..Len(list_of_granule_ids) |-> QueuedJob]
    /\ pool_pc' = "pool"
    /\ UNCHANGED <<job_dir, made_dirs, disk, results, warned>>
    /\ UNCHANGED <<runvars, mainvars>>

\* download_and_process_granules, lines 87-111: the last newline of
\* granule_dir.txt is removed and the file closed, the url lists are made,
\* and pool.starmap hands one call per granule to the pool.
StartPool ==
    /\ pool_pc = "dirs"
    /\ Len(list_of_granule_dirs) = Len(list_of_granule_ids)
    /\ job_dir' = DictSet(job_dir, "granule_dir.txt",
                          [k \in 1..Len(Listing) |->
                              IF k = Len(Listing) THEN [Listing[k] EXCEPT !.newline = FALSE]
                              ELSE Listing[k]])
    /\ jobs' = [i \in 1..Len(list_of_granule_ids) |-> QueuedJob]
    /\ pool_pc' = "pool"
    /\ UNCHANGED <<list_of_granule_dirs, made_dirs, disk, results, warned>>
    /\ UNCHANGED <<runvars, mainvars>>

\* A thread of the pool takes the next call: download_and_process_granule
\* and download_granule_data up to the loop over the urls.  The pool has
\* ncpu threads and hands out the calls in order.
JobStart(i) ==
    /\ pool_pc = "pool"
    /\ jobs[i].pc = "queued"
    /\ \A j \in 1..(i - 1) : jobs[j].pc # "queued"
    /\ Cardinality({j \in 1..Len(jobs) : Running(j)}) < main_args.ncpu
    /\ jobs' = [jobs EXCEPT ![i].pc = "fetch"]
    /\ UNCHANGED <<pool_pc, list_of_granule_dirs, made_dirs, disk, results, warned, job_dir>>
    /\ UNCHANGED <<runvars, mainvars>>

\* Job i has gone through its urls: lines 175-177 of
\* download_and_process_granule.
AfterUrls(i, u) ==
    IF u < Len(all_lists_of_urls(i)) THEN "fetch"
    ELSE IF main_args.do_not_process THEN "returned" ELSE "config"

\* download_granule_data, lines 204-219: one url.  A file that exists and
\* is a valid GeoTiff is kept; otherwise download2file is called and what
\* it returns is dropped.  An exception of download2file (the file cannot
\* be written) is caught by lines 169-172 and the job returns False.
FetchBand(i) ==
    /\ pool_pc = "pool"
    /\ jobs[i].pc = "fetch"
    /\ \E valid \in BOOLEAN, net \in NetOutcomes, writable \in BOOLEAN :
         LET u == jobs[i].url
             target == file_name(i, u)
             others == {f \in disk : f.path # target}
             r == download2file(net, 1, 0)
         IN  IF Exists(target) /\ valid
             THEN /\ jobs' = [jobs EXCEPT ![i].url = u + 1, ![i].pc = AfterUrls(i, u),
                                          ![i].net = <<>>, ![i].fetch = <<>>,
                                          ![i].result = IF AfterUrls(i, u) = "returned"
                                                        THEN "True" ELSE "none"]
                  /\ UNCHANGED disk
             ELSE IF r.wrote /\ ~writable
             THEN /\ jobs' = [jobs EXCEPT ![i].pc = "returned", ![i].result = "False",
                                          ![i].net = net, ![i].fetch = <<>>,
                                          ![i].missing = TRUE]
                  /\ disk' = others
             ELSE /\ disk' = IF r.wrote THEN Written(others, target, i) ELSE others
                  /\ jobs' = [jobs EXCEPT ![i].url = u + 1, ![i].pc = AfterUrls(i, u),
                                          ![i].net = net, ![i].fetch = <<r>>,
                                          ![i].missing = @ \/ ~r.ret,
                                          ![i].result = IF AfterUrls(i, u) = "returned"
                                                        THEN "True" ELSE "none"]
    /\ UNCHANGED <<pool_pc, list_of_granule_dirs, made_dirs, results, warned, job_dir>>
    /\ UNCHANGED <<runvars, mainvars>>

\* create_runconfig_yaml, lines 249-291: build_product_id_str opens the file
\* of the first url with gdal (lines 321-324), which raises when the file
\* is not there; the exception leaves download_and_process_granule.  Else
\* the runconfig of the granule directory is written.
Config(i) ==
    /\ pool_pc = "pool"
    /\ jobs[i].pc = "config"
    /\ IF Exists(file_name(i, 1))
       THEN /\ disk' = Written(disk, runconfig_path(i), i)
            /\ jobs' = [jobs EXCEPT ![i].pc = "clean", ![i].net = <<>>, ![i].fetch = <<>>]
       ELSE /\ jobs' = [jobs EXCEPT ![i].pc = "raised", ![i].net = <<>>, ![i].fetch = <<>>]
            /\ UNCHANGED disk
    /\ UNCHANGED <<pool_pc, list_of_granule_dirs, made_dirs, results, warned, job_dir>>
    /\ UNCHANGED <<runvars, mainvars>>

\* Mutant: the files of input_dir are removed as well.
Clean_inputToo(i) ==
    /\ pool_pc = "pool"
    /\ jobs[i].pc = "clean"
    /\ disk' = ((disk \ FilesIn(disk, Join(list_of_granule_dirs[i], <<"output_dir">>)))
                     \ FilesIn(disk, Join(list_of_granule_dirs[i], <<"scratch_dir">>)))
                    \ FilesIn(disk, Join(list_of_granule_dirs[i], <<"input_dir">>))
    /\ jobs' = [jobs EXCEPT ![i].pc = "process"]
    /\ UNCHANGED <<pool_pc, list_of_granule_dirs, made_dirs, results, warned, job_dir>>
    /\ UNCHANGED <<runvars, mainvars>>

\* download_and_process_granule, lines 182-186: every file of output_dir and
\* scratch_dir is removed.
Clean(i) ==
    /\ pool_pc = "pool"
    /\ jobs[i].pc = "clean"
    /\ disk' = (disk \ FilesIn(disk, Join(list_of_granule_dirs[i], <<"output_dir">>)))
                    \ FilesIn(disk, Join(list_of_granule_dirs[i], <<"scratch_dir">>))
    /\ jobs' = [jobs EXCEPT ![i].pc = "process"]
    /\ UNCHANGED <<pool_pc, list_of_granule_dirs, made_dirs, results, warned, job_dir>>
    /\ UNCHANGED <<runvars, mainvars>>

\* process_granule, lines 225-246, and the end of
\* download_and_process_granule: subprocess.run raises when dswx_hls.py
\* cannot be started; when it ran, with or without errors on stderr, the
\* job returns True.
Process(i) ==
    /\ pool_pc = "pool"
    /\ jobs[i].pc = "process"
    /\ \E tool \in {"ok", "stderr", "raises"} :
         IF tool = "raises"
         THEN /\ jobs' = [jobs EXCEPT ![i].pc = "raised"]
              /\ UNCHANGED disk
         ELSE /\ jobs' = [jobs EXCEPT ![i].pc = "returned", ![i].result = "True",
                                      ![i].ran_tool = TRUE]
              /\ disk' = IF tool = "ok" THEN Written(disk, product_path(i), i) ELSE disk
    /\ UNCHANGED <<pool_pc, list_of_granule_dirs, made_dirs, results, warned, job_dir>>
    /\ UNCHANGED <<runvars, mainvars>>

\* pool.starmap returns, lines 107-121: when every call has ended.  The
\* exception of a call is raised again in main; else the flags are the
\* results and the warning is emitted when one of them is False.
PoolJoin ==
    /\ pool_pc = "pool"
    /\ \A i \in 1..Len(jobs) : Finished(i)
    /\ IF \E i \in 1..Len(jobs) : jobs[i].pc = "raised"
       THEN /\ pool_pc' = "raised"
            /\ pc' = "crashed"
            /\ UNCHANGED <<results, warned>>
       ELSE /\ pool_pc' = "finished"
            /\ results' = [i \in 1..Len(jobs) |-> jobs[i].result = "True"]
            /\ warned' = \E i \in 1..Len(jobs) : jobs[i].result # "True"
            /\ UNCHANGED pc
    /\ UNCHANGED <<list_of_granule_dirs, made_dirs, disk, jobs, job_dir>>
    /\ UNCHANGED <<args, catalog_response, served, attempt, slept, item_collection,
                   granules_to_download, todo, num_removed, metadata, last, stages,
                   after_populate, after_prefilter, after_metadata, reported,
                   pool_started, fetch_failures>>
    /\ UNCHANGED mainvars

\* The granules of tile 11TLH on 8 June 2020: L30 twice, S30 once.
PoolCatalog ==
    {Item("L30", "11TLH", "2020160", tm) : tm \in Times}
    \cup {Item("S30", "11TLH", "2020160", "183142")}

\* A first run with no filter, with and without --do-not-process, any
\* response of at most MaxPoolItems granules of PoolCatalog, Landsat-8
\* documents.
InitPool ==
    InitWith([filters |-> {StudyAreaQuery(reformat_args(
                               CommandLine(<<"StudyArea">>, PlainRun, DefaultQuery)))},
              do_not_process |-> BOOLEAN],
             DistinctSeqs(PoolCatalog, MaxPoolItems), Landsat8Document)

NextPool ==
    \/ QuerySTAC
    \/ QuerySTACFails
    \/ Populate
    \/ PreFilter
    \/ MetadataRecord
    \/ MetadataFetchFails
    \/ FinishFilter
    \/ Persist
    \/ Download
    \/ CreateGranuleDir
    \/ StartPool
    \/ \E i \in 1..Len(jobs) : JobStart(i)
    \/ \E i \in 1..Len(jobs) : FetchBand(i)
    \/ \E i \in 1..Len(jobs) : Config(i)
    \/ \E i \in 1..Len(jobs) : Clean(i)
    \/ \E i \in 1..Len(jobs) : Process(i)
    \/ PoolJoin

SpecPool == InitPool /\ [][NextPool]_vars

SpecSameDay == InitSameDay /\ [][Next]_vars

\* ================================================================== claims
\* The vocabulary of the claims, read off the layout of GranuleId.
SensorOf(id) == id[3]
TileOf(id) == id[6]
DateOf(id) == id[8]
AcquisitionMonth(id) ==
    CASE DateOf(id) = "2020160" -> 6
      [] DateOf(id) = "2020015" -> 1

\* The value of the named attribute of a metadata document.
ValueOf(doc, name) == doc[CHOOSE i \in 1..Len(doc) : doc[i].name = name].value

IsLandsat9(id, doc) == SensorOf(id) = "L30" /\ ValueOf(doc, "LANDSAT_PRODUCT_ID")[1] = "LC09"
IsLandsat8(id, doc) == SensorOf(id) = "L30" /\ ValueOf(doc, "LANDSAT_PRODUCT_ID")[1] = "LC08"
IsOtherProduct(id, doc) == SensorOf(id) = "L30" /\ ~IsLandsat8(id, doc) /\ ~IsLandsat9(id, doc)
CloudCover(doc) == ParseInt(ValueOf(doc, "CLOUD_COVERAGE")[1])
SpatialCoverage(doc) == ParseInt(ValueOf(doc, "SPATIAL_COVERAGE")[1])

FailsCloud(doc) == args.cloud_cover_max < 100 /\ CloudCover(doc) > args.cloud_cover_max
FailsSpatial(doc) ==
    args.spatial_coverage_min > 0 /\ SpatialCoverage(doc) < args.spatial_coverage_min

\* x and y are the same tile on the same date seen by the two sensor families.
Partners(x, y) ==
    /\ TileOf(x) = TileOf(y)
    /\ DateOf(x) = DateOf(y)
    /\ SensorOf(x) # SensorOf(y)

\* Each (date, tile) has at most one granule per sensor family in the dict d.
OnePerFamily(d) ==
    \A x, y \in KeySet(d) :
        (TileOf(x) = TileOf(y) /\ DateOf(x) = DateOf(y) /\ SensorOf(x) = SensorOf(y))
            => x = y

\* The ids of d whose (date, tile) occurs for both L30 and S30.
PairedIds(d) == {x \in KeySet(d) : \E y \in KeySet(d) : Partners(x, y)}

\* query_STAC_and_filter_results returned: main goes on to persist.
PipelineCompleted == pc \in {"persist", "download", "done"}

\* The run is over after the catalog answered: the pipeline completed or
\* the process ended in sys.exit().
RunEnded == PipelineCompleted \/ (pc = "exited" /\ stages # <<>>)

ActivePredicates(e) ==
    /\ args.tile_id # <<>> => Contains(e.key, args.tile_id)
    /\ Len(args.months) < 12 =>
           \E m \in 1..Len(args.months) : args.months[m] = AcquisitionMonth(e.key)
    /\ HasKey(metadata, e.key)
    /\ ~IsLandsat9(e.key, Get(metadata, e.key))
    /\ args.cloud_cover_max < 100 =>
           CloudCover(Get(metadata, e.key)) <= args.cloud_cover_max
    /\ args.spatial_coverage_min > 0 =>
           SpatialCoverage(Get(metadata, e.key)) >= args.spatial_coverage_min

HasPartner(e) == \E y \in KeySet(granules_to_download) : Partners(e.key, y)

\* C1 as claimed: when the pipeline completes, every record left in
\* granules_to_download satisfies every active filter predicate, and with
\* same_day its partner of the other sensor family is in the set too.
C1_AllPredicates ==
    PipelineCompleted =>
        \A i \in 1..Len(granules_to_download) :
            /\ ActivePredicates(granules_to_download[i])
            /\ args.same_day => HasPartner(granules_to_download[i])

\* C1 amended: the same, the same-day partner being claimed only when the
\* populated Working Set has at most one granule per sensor family for each
\* (date, tile).
C1_AllPredicatesOnePerFamily ==
    PipelineCompleted =>
        \A i \in 1..Len(granules_to_download) :
            /\ ActivePredicates(granules_to_download[i])
            /\ (args.same_day /\ OnePerFamily(after_populate))
                   => HasPartner(granules_to_download[i])

C1_Witness ==
    /\ PipelineCompleted
    /\ args.same_day /\ args.tile_id # <<>> /\ Len(args.months) < 12
    /\ args.cloud_cover_max < 100 /\ args.spatial_coverage_min > 0
    /\ OnePerFamily(after_populate)
    /\ Len(granules_to_download) = 2

\* C2: once a stage has left the Working Set empty the process has exited:
\* nothing more runs (no later stage, the second same-day filter never after
\* an emptying metadata loop), no job directory or state is written, no
\* download is started.
C2_EmptyAborts ==
    (stages # <<>> /\ Len(granules_to_download) = 0) =>
        /\ pc = "exited"
        /\ ~ENABLED Next
        /\ job_dir = <<>>
        /\ ~pool_started
        /\ stages[Len(stages)] = "metadata" =>
               \A k \in 1..Len(stages) : stages[k] # "same_day_post"

C2_Witness ==
    /\ pc = "exited"
    /\ Len(granules_to_download) = 0
    /\ args.same_day
    /\ stages = <<"populate", "same_day_pre", "metadata">>

\* C3: after initial population every step only deletes: the ids of the dict
\* after the step are ids of the dict before it, and a surviving id keeps its
\* record.
C3_DeletionOnly ==
    [][stages # <<>> =>
          /\ KeySet(granules_to_download') \subseteq KeySet(granules_to_download)
          /\ \A k \in KeySet(granules_to_download') :
                 Get(granules_to_download', k) = Get(granules_to_download, k)]_vars

C3_Witness ==
    /\ pc = "metadata"
    /\ last.why = "cloud"
    /\ Len(after_prefilter) = 2
    /\ Len(granules_to_download) = 1

SameDayFilterRan == \E k \in 1..Len(stages) : stages[k] = "same_day_pre"
SecondFilterRan == \E k \in 1..Len(stages) : stages[k] = "same_day_post"

AllHavePartner(d) == \A x \in KeySet(d) : \E y \in KeySet(d) : Partners(x, y)

\* C4 as claimed: whatever Working Set the same-day filter was applied to,
\* every granule it retains has a retained counterpart of the same tile and
\* date and of the other sensor family.
C4_RetainedHavePartner ==
    /\ SameDayFilterRan => AllHavePartner(after_prefilter)
    /\ SecondFilterRan => AllHavePartner(granules_to_download)

\* C4 amended: the same for a Working Set that holds at most one granule per
\* sensor family for each (date, tile).
C4_RetainedHavePartnerOnePerFamily ==
    /\ (SameDayFilterRan /\ OnePerFamily(after_populate))
           => AllHavePartner(after_prefilter)
    /\ (SecondFilterRan /\ OnePerFamily(after_metadata))
           => AllHavePartner(granules_to_download)

C4_Witness ==
    /\ SecondFilterRan
    /\ OnePerFamily(after_populate)
    /\ Len(after_populate) > Len(after_prefilter)
    /\ Len(granules_to_download) = 2

\* C5: the same-day filter applied a second time, the metadata loop having
\* changed nothing in between, leaves the Working Set the first application
\* left.
C5_Idempotent ==
    (SecondFilterRan /\ after_metadata = after_prefilter)
        => granules_to_download = after_prefilter

C5_Witness ==
    /\ SecondFilterRan
    /\ after_metadata = after_prefilter
    /\ Len(after_populate) > Len(after_prefilter)
    /\ ~OnePerFamily(after_prefilter)

\* C6 as claimed: with at most one granule per sensor family for each
\* (date, tile), the same-day filter retains exactly the records whose key
\* occurs for both L30 and S30, and a run with same_day and no other filter
\* ends with exactly those records.
C6_ExactlyPaired ==
    OnePerFamily(after_populate) =>
        /\ SameDayFilterRan => KeySet(after_prefilter) = PairedIds(after_populate)
        /\ (RunEnded /\ args.same_day)
               => KeySet(granules_to_download) = PairedIds(after_populate)

\* C6 amended: the run ends with exactly the paired records when none of
\* them is a Landsat-9 acquisition.
C6_ExactlyPairedNoLandsat9 ==
    OnePerFamily(after_populate) =>
        /\ SameDayFilterRan => KeySet(after_prefilter) = PairedIds(after_populate)
        /\ (RunEnded /\ args.same_day
                /\ \A x \in PairedIds(after_populate) :
                       HasKey(metadata, x) /\ ~IsLandsat9(x, Get(metadata, x)))
               => KeySet(granules_to_download) = PairedIds(after_populate)

C6_Witness ==
    /\ pc = "done"
    /\ OnePerFamily(after_populate)
    /\ Len(after_populate) = 4
    /\ Len(granules_to_download) = 2
    /\ num_removed = NoCounts

\* The pairs the scan of the same-day filter matches in the keys of a dict:
\* an id and the id met before it under the same (date, tile) that was still
\* unmatched.
RECURSIVE MatchedPairsFrom(_, _, _, _)
MatchedPairsFrom(keys, i, open, pairs) ==
    IF i > Len(keys) THEN pairs
    ELSE LET k == <<DateOf(keys[i]), TileOf(keys[i])>>
         IN  IF HasKey(open, k)
             THEN MatchedPairsFrom(keys, i + 1, DictDel(open, k),
                                   pairs \cup {{Get(open, k), keys[i]}})
             ELSE MatchedPairsFrom(keys, i + 1, DictSet(open, k, keys[i]), pairs)

MatchedPairs(d) == MatchedPairsFrom(Keys(d), 1, <<>>, {})

\* Nothing is persisted before the second same-day filter has run.
RefilteredBeforePersist == (args.same_day /\ job_dir # <<>>) => SecondFilterRan

\* C7 as claimed: with same_day the filter runs again after the metadata
\* loop and before anything is persisted, and when the metadata loop deleted
\* one member of a pair matched by the first filter, the other member is not
\* in the final Working Set.
C7_BrokenPairRemoved ==
    /\ RefilteredBeforePersist
    /\ SecondFilterRan =>
           \A pair \in MatchedPairs(after_populate) : \A x, y \in pair :
               (x # y /\ ~HasKey(after_metadata, x))
                   => ~HasKey(granules_to_download, y)

\* C7 amended: the same when the populated Working Set holds at most one
\* granule per sensor family for each (date, tile).
C7_BrokenPairRemovedOnePerFamily ==
    /\ RefilteredBeforePersist
    /\ (SecondFilterRan /\ OnePerFamily(after_populate)) =>
           \A pair \in MatchedPairs(after_populate) : \A x, y \in pair :
               (x # y /\ ~HasKey(after_metadata, x))
                   => ~HasKey(granules_to_download, y)

C7_Witness ==
    /\ pc = "persist"
    /\ OnePerFamily(after_populate)
    /\ Len(after_prefilter) = 4
    /\ Len(after_metadata) = 3
    /\ Len(granules_to_download) = 2

\* C8: of the L30 records whose document was fetched, one with an LC09
\* product id is out of the Working Set, one with an LC08 product id is not
\* removed by the sensor check (it is in the set after its iteration unless
\* the cloud or coverage check removed it), and any other product id has
\* ended the process with the exception, nothing persisted or downloaded.
C8_SensorExclusion ==
    \A i \in 1..Len(metadata) :
        LET id == metadata[i].key
            doc == metadata[i].val
        IN  /\ IsLandsat9(id, doc) =>
                   /\ ~HasKey(granules_to_download, id)
                   /\ last.item_name = id => last.why = "landsat9"
            /\ IsLandsat8(id, doc) =>
                   /\ last.item_name = id => last.why \notin {"landsat9", "raise"}
                   /\ (last.item_name = id /\ pc \in {"metadata", "report"}
                          /\ ~FailsCloud(doc) /\ ~FailsSpatial(doc))
                         => HasKey(granules_to_download, id)
            /\ IsOtherProduct(id, doc) =>
                   /\ pc = "crashed"
                   /\ last = [item_name |-> id, why |-> "raise"]
                   /\ job_dir = <<>>
                   /\ ~pool_started

C8_Witness ==
    /\ pc = "crashed"
    /\ last.why = "raise"
    /\ num_removed.landsat9 = 1
    /\ Len(metadata) = 2

\* C9: after initial population with fewer than 12 months requested, a
\* record that passed the tile filter is retained exactly when its
\* acquisition month is one of the requested months.
C9_MonthFilter ==
    (stages # <<>> /\ Len(args.months) < 12) =>
        \A i \in 1..Len(item_collection) :
            LET id == item_collection[i].id
            IN  (args.tile_id = <<>> \/ <<TileOf(id)>> = args.tile_id) =>
                    (HasKey(after_populate, id)
                        <=> \E m \in 1..Len(args.months) :
                                args.months[m] = AcquisitionMonth(id))

C9_Witness ==
    /\ stages # <<>>
    /\ Len(args.months) < 12
    /\ Len(item_collection) = 2
    /\ Len(after_populate) = 1
    /\ \A i \in 1..2 : TileOf(item_collection[i].id) = "11TLH"

\* The first check, in document order, that a record's document fails.
FirstFailing(id, doc) ==
    IF IsOtherProduct(id, doc) THEN "raise"
    ELSE IF IsLandsat9(id, doc) THEN "landsat9"
    ELSE IF FailsCloud(doc) THEN "cloud"
    ELSE IF FailsSpatial(doc) THEN "spatial"
    ELSE "none"

Fetched == 1..Len(metadata)

\* C10 as claimed: all three checks are evaluated for every record, so each
\* removal counter counts every fetched record that fails its check.
C10_EveryFailureCounted ==
    pc # "crashed" =>
        /\ num_removed.landsat9 =
               Cardinality({i \in Fetched : IsLandsat9(metadata[i].key, metadata[i].val)})
        /\ num_removed.cloud = Cardinality({i \in Fetched : FailsCloud(metadata[i].val)})
        /\ num_removed.spatial =
               Cardinality({i \in Fetched : FailsSpatial(metadata[i].val)})

\* C10 amended: the checks are evaluated in document order and the
\* evaluation of a record stops at the first check that deletes it, so each
\* removal counter counts the fetched records whose first failing check is
\* its own, and every deleted record is counted once.
C10_FirstFailureCounted ==
    pc # "crashed" =>
        /\ \A why \in {"landsat9", "cloud", "spatial"} :
               num_removed[why] =
                   Cardinality({i \in Fetched :
                                   FirstFailing(metadata[i].key, metadata[i].val) = why})
        /\ pc \in {"metadata", "report"} =>
               num_removed.landsat9 + num_removed.cloud + num_removed.spatial
                   = Len(after_prefilter) - Len(granules_to_download)

C10_Witness ==
    /\ pc = "metadata"
    /\ num_removed = [landsat9 |-> 0, cloud |-> 1, spatial |-> 0]
    /\ Len(metadata) = 1
    /\ FailsCloud(metadata[1].val)
    /\ FailsSpatial(metadata[1].val)

\* ------------------------------------------------------------ rerun claims
ArtifactsPresent ==
    HasKey(job_dir, "settings.json") /\ HasKey(job_dir, "query_results.pickle")

\* A process started with --rerun, the download not switched off.
RerunToDownload == main_args.rerun /\ ~main_args.do_not_download

\* No catalog query and no filter stage has run in this process.
NothingQueried ==
    /\ pc \notin {"query", "populate", "same_day_pre", "metadata", "report", "persist"}
    /\ item_collection = <<>>
    /\ stages = <<>>
    /\ metadata = <<>>

\* C11 as claimed: a rerun with both artifacts present and the download not
\* switched off never queries the catalog nor runs a filter stage, and it
\* does not end before download_and_process_granules is entered with the
\* Working Set loaded from query_results.pickle.
C11_RerunReachesDownload ==
    (RerunToDownload /\ ArtifactsPresent) =>
        /\ NothingQueried
        /\ Ended => (pool_started /\ query_results = persisted[1].granules)

C13_MissingStateFatal ==
    /\ [](  (main_args.rerun /\ ~ArtifactsPresent) =>
               /\ pc \in {"parse", "verify", "crashed"}
               /\ NothingQueried
               /\ query_results = <<>>
               /\ ~pool_started)
    /\ [][ /\ (main_args.rerun /\ ~ArtifactsPresent /\ pc = "verify") => pc' = "crashed"
           /\ (main_args.rerun /\ ~ArtifactsPresent) => job_dir' = job_dir ]_vars

C13_Witness ==
    /\ main_args.rerun
    /\ pc = "crashed"
    /\ HasKey(job_dir, "settings.json")
    /\ ~HasKey(job_dir, "query_results.pickle")
    /\ loaded_settings # <<>>

\* ---------------------------------------------------------- network claims
\* The catalog query failed three times and the process exited.
QueryGaveUp == pc = "exited" /\ stages = <<>>

\* C14: the catalog query is in its first, second or third attempt and has
\* slept 5 seconds after each failed attempt but the third; once an attempt
\* succeeded no further attempt is made; a failure of the third attempt
\* ends the process, and then no filter stage has run, nothing is persisted
\* and no download is started.
C14_QueryRetry ==
    /\ [](/\ attempt \in 1..3
          /\ slept = 5 * (attempt - 1)
          /\ QueryGaveUp =>
                 /\ attempt = 3
                 /\ item_collection = <<>> /\ granules_to_download = <<>>
                 /\ job_dir = <<>> /\ persisted = <<>>
                 /\ ~pool_started
                 /\ ~ENABLED Next)
    /\ [][/\ pc # "query" => (attempt' = attempt /\ slept' = slept)
          /\ (pc = "query" /\ attempt = 3) => pc' \in {"populate", "exited"}
          /\ (pc = "query" /\ pc' = "exited") => attempt = 3]_vars

C14_Witness == QueryGaveUp /\ attempt = 3 /\ slept = 10

\* C15 as claimed: a metadata fetch that fails is tried again, and the
\* process ends on a failed fetch only when it was the third in a row.
C15_MetadataFetchRetried ==
    (pc = "crashed" /\ fetch_failures > 0) => fetch_failures = 3

\* --------------------------------------------- a run of the pool and its rerun
\* The catalog returns one granule, or two granules of one sensor, tile and
\* day.
ResumeResponses ==
    {<<Item("L30", "11TLH", "2020160", "183142")>>,
     <<Item("L30", "11TLH", "2020160", "183142"), Item("L30", "11TLH", "2020160", "214936")>>}

\* A first run that downloads and processes, no filter.
InitResume ==
    InitWith([filters |-> {StudyAreaQuery(reformat_args(
                               CommandLine(<<"StudyArea">>, PlainRun, DefaultQuery)))},
              do_not_process |-> {FALSE}],
             ResumeResponses, Landsat8Document)

NextResume ==
    \/ QuerySTAC
    \/ QuerySTACFails
    \/ Populate
    \/ PreFilter
    \/ MetadataRecord
    \/ MetadataFetchFails
    \/ FinishFilter
    \/ Persist
    \/ Download
    \/ CreateGranuleDir
    \/ StartPool
    \/ \E i \in 1..Len(jobs) : JobStart(i)
    \/ \E i \in 1..Len(jobs) : FetchBand(i)
    \/ \E i \in 1..Len(jobs) : Config(i)
    \/ \E i \in 1..Len(jobs) : Clean(i)
    \/ \E i \in 1..Len(jobs) : Process(i)
    \/ PoolJoin
    \/ StartRerun
    \/ ParseArgs
    \/ MainSetup

SpecResume == InitResume /\ [][NextResume]_vars

\* ------------------------------------------ the selectors of the catalog query
\* --bounding-box strings: the example of the help text, which covers tile
\* 11TLH, and a box around tile 04WFT.
BoxNear == <<"-120", " ", "43", " ", "-118", " ", "48">>
BoxFar == <<"-160", " ", "64", " ", "-155", " ", "68">>

\* float(i) for the numbers of the boxes, in degrees.
FloatOf(text) ==
    CASE text = "-120" -> -120 [] text = "43" -> 43 [] text = "-118" -> -118
      [] text = "48" -> 48 [] text = "-160" -> -160 [] text = "64" -> 64
      [] text = "-155" -> -155 [] text = "68" -> 68

\* utility.mgrs_to_lat_lon_bounding_box: (lon_min, lat_min, lon_max, lat_max)
\* of an MGRS tile, in whole degrees.
mgrs_to_lat_lon_bounding_box(mgrs_tile_id) ==
    CASE mgrs_tile_id = <<"11TLH">> -> <<-120, 44, -118, 46>>
      [] mgrs_tile_id = <<"04WFT">> -> <<-159, 65, -156, 67>>

\* The area of the .geojson file the user has: a polygon around tile 11TLH.
RoiFile == <<"roi.geojson">>
RoiOf(path) == <<-120, 44, -118, 46>>

\* The ids of --granule-ids: one of January, and two of June on two tiles.
IdsJanuary == GranuleId("L30", "11TLH", "2020015", "183142")
IdsTwoTiles ==
    GranuleId("L30", "11TLH", "2020160", "183142") \o <<",">>
    \o GranuleId("S30", "04WFT", "2020160", "183142")

\* The selectors of a command line: '' is <<>>.
SelectorOptions ==
    [bounding_box : {<<>>, BoxNear, BoxFar},
     intersects : {<<>>, RoiFile},
     granule_ids : {<<>>, IdsJanuary, IdsTwoTiles},
     date_range : {<<>>, <<"2020">>}]

\* The filters the command lines of SpecSelect give.
SelectFilters == {q \in QueryOptions : q.spatial_coverage_min = 0}

\* parse_args: the args dictionary with the four selectors.
SelectCommandLine(query, selectors) ==
    CommandLine(<<"StudyArea">>, PlainRun, query) @@ selectors

\* str.lstrip('T')
RECURSIVE LStripT(_)
LStripT(text) == IF text # <<>> /\ Head(text) = "T" THEN LStripT(Tail(text)) ELSE text

\* The regular expression of line 435 on the tokens of a granule id.
MatchesHLS(gran) ==
    /\ Len(gran) = 14
    /\ gran[1] = "HLS" /\ gran[2] = "." /\ gran[3] \in Sensors /\ gran[4] = "."
    /\ gran[5] = "T" /\ gran[6] \in {"11TLH", "04WFT"} /\ gran[7] = "."
    /\ gran[8] \in Dates /\ gran[9] = "T" /\ gran[10] \in Times
    /\ SubSeq(gran, 11, 14) = <<".", "v2", ".", "0">>

\* verify_input_args, lines 431-465: do the asserts on the query inputs of a
\* run without --rerun all pass?
verify_input_args(a) ==
    IF a.granule_ids # <<>>
    THEN \A k \in 1..Len(SplitOn(a.granule_ids, ",")) :
             MatchesHLS(SplitOn(a.granule_ids, ",")[k])
    ELSE /\ a.date_range # <<>>
         /\ IF a.tile_id # <<>>
            THEN LStripT(a.tile_id) \in {<<"11TLH">>, <<"04WFT">>}
            ELSE ((a.bounding_box # <<>>) # (a.intersects # <<>>)) # (a.tile_id # <<>>)
         /\ 0 <= a.cloud_cover_max /\ a.cloud_cover_max <= 100
         /\ 0 <= a.spatial_coverage_min /\ a.spatial_coverage_min <= 100
         /\ a.same_day \in BOOLEAN
         /\ \A k \in 1..Len(SplitOn(a.months, ",")) :
                \E m \in 1..Len(SplitOn(AllMonthNames, ",")) :
                    SplitOn(a.months, ",")[k] = SplitOn(AllMonthNames, ",")[m]

\* reformat_args, lines 472-517: the bounding box of the tile id, then the
\* bounding box string of the command line as a list of numbers, the months
\* and bands as lists, the granule ids as a list.
reformat_selectors(a) ==
    [bounding_box |->
         IF a.bounding_box # <<>>
         THEN [k \in 1..4 |-> FloatOf(SplitOn(a.bounding_box, " ")[k][1])]
         ELSE IF a.tile_id # <<>> THEN mgrs_to_lat_lon_bounding_box(LStripT(a.tile_id))
         ELSE <<>>,
     granule_ids |-> IF a.granule_ids # <<>> THEN SplitOn(a.granule_ids, ",") ELSE <<>>]
    @@ reformat_args(a)

\* StudyAreaQuery.__init__ with the selectors it stores.
StudyAreaSelectors(prepped) ==
    StudyAreaQuery(prepped) @@
    [bounding_box |-> prepped.bounding_box, intersects |-> prepped.intersects,
     granule_ids |-> prepped.granule_ids, date_range |-> prepped.date_range]

\* query_STAC, lines 72-97: the search sent to the catalog.
query_STAC_search(study_area) ==
    IF study_area.granule_ids # <<>>
    THEN [by |-> "ids", ids |-> study_area.granule_ids, area |-> <<>>, datetime |-> <<>>]
    ELSE IF study_area.bounding_box # <<>>
    THEN [by |-> "bbox", ids |-> <<>>, area |-> study_area.bounding_box,
          datetime |-> study_area.date_range]
    ELSE [by |-> "intersects", ids |-> <<>>, area |-> RoiOf(study_area.intersects),
          datetime |-> study_area.date_range]

\* The items of the catalog in the order the service lists them.
CatalogItems ==
    <<Item("L30", "11TLH", "2020015", "183142"), Item("S30", "11TLH", "2020015", "183142"),
      Item("L30", "11TLH", "2020160", "183142"), Item("S30", "11TLH", "2020160", "183142"),
      Item("S30", "04WFT", "2020160", "183142")>>

\* Two boxes (lon_min, lat_min, lon_max, lat_max) overlap.
Overlap(a, b) == a[1] < b[3] /\ b[1] < a[3] /\ a[2] < b[4] /\ b[2] < a[4]

\* search.get_all_items(): the items with one of the ids, or the items of
\* the year whose tile overlaps the area.
get_all_items(search) ==
    SelectSeq(CatalogItems,
              LAMBDA i :
                  IF search.by = "ids"
                  THEN \E k \in 1..Len(search.ids) : search.ids[k] = i.id
                  ELSE /\ Overlap(mgrs_to_lat_lon_bounding_box(<<i.id[6]>>), search.area)
                       /\ search.datetime = <<SubSeq(i.datetime, 1, 1)[1]>>)

\* Cloud coverage 50 or 90 on Landsat-8 products.
CloudDocument ==
    [products |-> {<<"LC08", "_L1TP">>}, clouds |-> {<<"50">>, <<"90">>},
     spatials |-> {<<"50">>}]

\* A run without --rerun at the end of parse_args: any selectors, a tile, a
\* month, --same-day or not.
InitSelect ==
    /\ \E query \in SelectFilters, selectors \in SelectorOptions :
           Started(SelectCommandLine(query, selectors))
    /\ PoolIdle
    /\ catalog_response = <<>>
    /\ served = CloudDocument
    /\ job_dir = <<>>
    /\ persisted = <<>>

\* main, lines 29-54: verify_input_args, whose failed assert ends the
\* process, reformat_args, the StudyAreaQuery object and the search it
\* will send; catalog_response is what the catalog has for that search.
VerifyInputArgs ==
    /\ pc = "verify"
    /\ ~main_args.rerun
    /\ IF verify_input_args(main_args)
       THEN /\ prepped_args' = <<reformat_selectors(main_args)>>
            /\ args' = StudyAreaSelectors(prepped_args'[1])
            /\ catalog_response' = get_all_items(query_STAC_search(args'))
            /\ pc' = "query"
       ELSE /\ pc' = "crashed"
            /\ UNCHANGED <<prepped_args, args, catalog_response>>
    /\ UNCHANGED <<fetch_failures, served, attempt, slept, item_collection,
                   granules_to_download, todo, num_removed, metadata, last, stages,
                   after_populate, after_prefilter, after_metadata, reported, job_dir,
                   pool_started, main_args, query_results, loaded_settings, persisted>>
    /\ UNCHANGED poolvars

NextSelect ==
    \/ ParseArgs
    \/ VerifyInputArgs
    \/ QuerySTAC
    \/ QuerySTACFails
    \/ Populate
    \/ PreFilter
    \/ MetadataRecord
    \/ MetadataFetchFails
    \/ FinishFilter
    \/ Persist
    \/ Download

SpecSelect == InitSelect /\ [][NextSelect]_vars

\* ------------------------------------------------------------- pool claims
\* C16 as claimed: a call of download2file whose first or second request
\* raised and whose later request was answered wrote the file and returned
\* True, and a call that returned False for a request that raised had made
\* three attempts and slept 5 seconds after each of the first two.
C16_DownloadRetries ==
    \A i \in 1..Len(jobs) :
        jobs[i].fetch # <<>> =>
            LET r == jobs[i].fetch[1]
                net == jobs[i].net
            IN  /\ (net[1] = "raises" /\ \E k \in 2..3 : net[k] = "ok") => (r.ret /\ r.wrote)
                /\ (~r.ret /\ net[r.attempt] = "raises") => (r.attempt = 3 /\ r.slept = 10)

\* C17 as claimed: a job one of whose bands could not be fetched never
\* invokes dswx_hls.py and ends returning False, and once the pool has
\* completed the summary warning was emitted.
C17_FailedFetchSkipsGranule ==
    \A i \in 1..Len(jobs) :
        jobs[i].missing =>
            /\ ~jobs[i].ran_tool
            /\ jobs[i].pc \notin {"config", "clean", "process", "raised"}
            /\ Finished(i) => jobs[i].result = "False"
            /\ pool_pc = "finished" => warned

\* C18 as claimed: when every job has ended the pool returns one flag per
\* granule, False for each job that failed at whatever step, and main goes
\* on; a job that ended, failed or not, keeps no queued job from starting.
C18_FailedJobIsolated ==
    /\ pool_pc # "raised"
    /\ pool_pc = "finished" =>
           /\ Len(results) = Len(list_of_granule_ids)
           /\ \A i \in 1..Len(jobs) :
                  (jobs[i].pc = "raised" \/ jobs[i].result = "False") => ~results[i]
    /\ (pool_pc = "pool" /\ \E i \in 1..Len(jobs) : jobs[i].pc = "queued") =>
           \/ \E i \in 1..Len(jobs) : ENABLED JobStart(i)
           \/ Cardinality({j \in 1..Len(jobs) : Running(j)}) = main_args.ncpu

\* The pool has been handed the calls.
PoolBegun == pool_pc \in {"pool", "finished", "raised"}

\* The catalog query and the whole filter pipeline have run and their
\* result is in the job directory.
PersistDone ==
    /\ pc \in {"download", "done", "crashed"}
    /\ Len(stages) >= 2 /\ stages[1] = "populate" /\ stages[Len(stages)] = "metadata"
    /\ todo = <<>>
    /\ persisted # <<>>
    /\ persisted[1].granules = granules_to_download
    /\ HasKey(job_dir, "settings.json") /\ HasKey(job_dir, "query_results.pickle")

\* C19: the directories are made only after the query, the filters and
\* the persistence, and the pool is started, and so a job begins, only
\* after all of those, when every granule has its directory and
\* granule_dir.txt lists every directory and has lost its last newline;
\* from then on neither the working set, nor the directories, nor
\* granule_dir.txt, nor the persisted files change.
C19_PrePoolSequential ==
    /\ [](pool_pc # "idle" => (PersistDone /\ pool_started /\ query_results = granules_to_download))
    /\ []((PoolBegun \/ \E i \in 1..Len(jobs) : jobs[i].pc # "queued") =>
             /\ PoolBegun
             /\ Len(jobs) = Len(list_of_granule_ids)
             /\ Len(list_of_granule_dirs) = Len(list_of_granule_ids)
             /\ \A i \in 1..Len(list_of_granule_ids) :
                    /\ list_of_granule_dirs[i] = granule_dir_of(list_of_granule_ids[i])
                    /\ list_of_granule_dirs[i] \in made_dirs
             /\ Len(Listing) = Len(list_of_granule_ids)
             /\ \A k \in 1..Len(Listing) :
                    /\ Listing[k].line = list_of_granule_dirs[k]
                    /\ Listing[k].newline = (k < Len(Listing)))
    /\ [][PoolBegun => /\ job_dir' = job_dir
                       /\ made_dirs' = made_dirs
                       /\ list_of_granule_dirs' = list_of_granule_dirs
                       /\ query_results' = query_results]_vars

\* Two granules, the second job has begun while the first is still running.
C19_Witness ==
    /\ pool_pc = "pool"
    /\ Len(jobs) = 2
    /\ jobs[1].pc = "process"
    /\ jobs[2].pc = "fetch"
    /\ Len(Listing) = 2

\* C20 as claimed: two granules of the working set have two directories,
\* and every file a job wrote lies in the directory of no other job.
C20_JobsShareNothing ==
    /\ \A i, j \in 1..Len(list_of_granule_dirs) :
           i # j => list_of_granule_dirs[i] # list_of_granule_dirs[j]
    /\ \A f \in disk : \A j \in 1..Len(list_of_granule_dirs) :
           (j # f.by /\ Len(f.path) > Len(list_of_granule_dirs[j])) =>
               SubSeq(f.path, 1, Len(list_of_granule_dirs[j])) # list_of_granule_dirs[j]

\* ------------------------------------------------------------ codec claims
\* The year and the day of the year a YYYYDDD token stands for.
YearDay(tok) ==
    CASE tok = "2020160" -> [year |-> 2020, day |-> 160]
      [] tok = "2020015" -> [year |-> 2020, day |-> 15]

IsLeap(year) == (year % 4 = 0 /\ year % 100 # 0) \/ year % 400 = 0

DaysInMonth(year, month) ==
    IF month = 2 THEN (IF IsLeap(year) THEN 29 ELSE 28)
    ELSE IF month \in {4, 6, 9, 11} THEN 30 ELSE 31

\* datetime.strptime(date, '%Y%j'): the month and day of ordinal day d.
RECURSIVE OrdinalToCalendar(_, _, _)
OrdinalToCalendar(year, d, month) ==
    IF d <= DaysInMonth(year, month) THEN [year |-> year, month |-> month, day |-> d]
    ELSE OrdinalToCalendar(year, d - DaysInMonth(year, month), month + 1)

\* The calendar date a YYYYMMDD token stands for.
CalendarOf(tok) ==
    CASE tok = "20200608" -> [year |-> 2020, month |-> 6, day |-> 8]
      [] tok = "20200115" -> [year |-> 2020, month |-> 1, day |-> 15]

\* The id of the example.
ExampleId == GranuleId("L30", "11TLH", "2020160", "183142")

\* The directory and the product of granule i are there.
DirAndProduct(i) ==
    /\ i <= Len(list_of_granule_dirs)
    /\ i <= Len(jobs)
    /\ Exists(product_path(i))

SelectorsSet ==
    {name \in {"bounding_box", "intersects", "tile_id", "granule_ids"} :
        main_args[name] # <<>>}

\* verify_input_args let the run through.
Verified == ~main_args.rerun /\ prepped_args # <<>> /\ pc \notin {"parse", "verify"}

\* The ids of the records the catalog returned.
ReturnedIds == {item_collection[k].id : k \in 1..Len(item_collection)}

\* C22 as claimed: with a tile id and no granule ids, the search sent to
\* the catalog is the bounding-box search of the box computed from the tile
\* id, whatever --bounding_box and --intersects are, and the catalog
\* answers that search.
C22_TileIdIgnoresArea ==
    (Verified /\ main_args.tile_id # <<>> /\ main_args.granule_ids = <<>>) =>
        LET tile_search ==
                [by |-> "bbox", ids |-> <<>>,
                 area |-> mgrs_to_lat_lon_bounding_box(LStripT(main_args.tile_id)),
                 datetime |-> main_args.date_range]
        IN  /\ query_STAC_search(args) = tile_search
            /\ catalog_response = get_all_items(tile_search)

\* C23 as claimed: with granule ids, initial population keeps every record
\* the catalog returned, and the Working Set that is persisted holds
\* exactly the returned records (none of them Landsat-9 here), whatever
\* tile_id, months, cloud_cover_max and same_day are; the run exits early
\* only when the catalog could not be reached or returned nothing.
C23_GranuleIdsIgnoreFilters ==
    (Verified /\ main_args.granule_ids # <<>>) =>
        /\ stages # <<>> => KeySet(after_populate) = ReturnedIds
        /\ persisted # <<>> => KeySet(persisted[1].granules) = ReturnedIds
        /\ (pc = "exited" /\ ~main_args.do_not_download) =>
               (stages = <<>> \/ item_collection = <<>>)

\* C24 as claimed: a run without --rerun gets past verify_input_args only
\* with exactly one of the four selectors set, and a rejected run has
\* queried nothing.
C24_ExactlyOneSelector ==
    /\ Verified => Cardinality(SelectorsSet) = 1
    /\ (~main_args.rerun /\ pc = "crashed" /\ prepped_args = <<>>) =>
           (item_collection = <<>> /\ attempt = 1 /\ stages = <<>>)

\* ------------------------------------------------------ metadata loop claims
\* The del statements the attribute loop runs for a fetched document on a
\* Working Set that holds the record.
DelsFor(item_name, doc) ==
    AttributeLoop(doc, 1, <<[key |-> item_name, val |-> doc]>>, item_name, args).dels

\* A Landsat-9 document over the cloud ceiling and under the spatial floor.
FailsAllThree(doc) ==
    /\ Len(doc) = 3
    /\ StartsWith(doc[1].value, <<"LC09">>)
    /\ ParseInt(doc[2].value[1]) > args.cloud_cover_max
    /\ ParseInt(doc[3].value[1]) < args.spatial_coverage_min

\* C25: the metadata loop evaluates ids that are in the Working Set, each
\* once; the attribute loop runs at most one del for a document, also for
\* one that fails two or three checks; a step of the loop removes no id but
\* the one it evaluates and counts each removal once.
C25_DeletedOnce ==
    /\ [](pc = "metadata" =>
             /\ \A k \in 1..Len(todo) : HasKey(granules_to_download, todo[k])
             /\ \A k, l \in 1..Len(todo) : k # l => todo[k] # todo[l])
    /\ [](\A k \in 1..Len(metadata) : DelsFor(metadata[k].key, metadata[k].val) <= 1)
    /\ [][pc = "metadata" =>
             /\ KeySet(granules_to_download) \ KeySet(granules_to_download') \subseteq {Head(todo)}
             /\ num_removed'.landsat9 + num_removed'.cloud + num_removed'.spatial
                    = num_removed.landsat9 + num_removed.cloud + num_removed.spatial
                      + Cardinality(KeySet(granules_to_download)
                                        \ KeySet(granules_to_download'))]_vars

\* A record that fails the three checks was evaluated and is gone, with
\* another record left.
C25_Witness ==
    /\ last.why = "landsat9"
    /\ HasKey(metadata, last.item_name)
    /\ FailsAllThree(Get(metadata, last.item_name))
    /\ ~HasKey(granules_to_download, last.item_name)
    /\ Len(granules_to_download) = 1

\* C26: a metadata document is fetched only by the metadata loop, for the
\* id the loop is at, which is in the Working Set, survived the pairing
\* pre-filter and has no document yet; the Working Set is not empty when a
\* fetch is made, and a fetch that fails is made under the same conditions.
C26_FetchedOnceSurvivorsOnly ==
    /\ [](KeySet(metadata) \subseteq KeySet(after_prefilter))
    /\ [](pc = "metadata" =>
             \A k \in 1..Len(todo) :
                 /\ ~HasKey(metadata, todo[k])
                 /\ HasKey(after_prefilter, todo[k])
                 /\ HasKey(granules_to_download, todo[k]))
    /\ [][(metadata' # metadata \/ fetch_failures' # fetch_failures) =>
             /\ pc = "metadata"
             /\ todo # <<>>
             /\ granules_to_download # <<>>
             /\ KeySet(metadata') \subseteq KeySet(metadata) \cup {Head(todo)}
             /\ Len(metadata') <= Len(metadata) + 1]_vars

\* The pre-filter deleted a record, the loop fetched a document for each of
\* the others and for no other.
C26_Witness ==
    /\ args.same_day
    /\ pc = "report"
    /\ Len(after_prefilter) >= 2
    /\ Len(after_populate) > Len(after_prefilter)
    /\ KeySet(metadata) = KeySet(after_prefilter)

\* C27 as claimed: each count printed at the end of the metadata loop is
\* the number of records left by the filters up to its own, starting from
\* the records the loop ran over, and the last count is the size of the
\* Working Set when it is printed.
C27_CountsAccurate ==
    reported # <<>> =>
        LET n == Len(after_prefilter)
            expected ==
                <<n - num_removed.landsat9>>
                \o (IF args.cloud_cover_max < 100
                    THEN <<n - num_removed.landsat9 - num_removed.cloud>> ELSE <<>>)
                \o (IF args.spatial_coverage_min > 0
                    THEN <<n - num_removed.landsat9 - num_removed.cloud
                             - num_removed.spatial>> ELSE <<>>)
        IN  /\ reported = expected
            /\ reported[Len(reported)] = Len(after_metadata)

\* ------------------------------------------------------------ rerun claims
\* The options the command line of a rerun keeps.
RerunOverrides == {"job_name", "do_not_download", "do_not_process", "verbose"}

InputFiles == UNION {FilesIn(disk, Join(d, <<"input_dir">>)) : d \in made_dirs}

\* The files of output_dir and scratch_dir of the directory of job i.
OutputAndScratch(i) ==
    FilesIn(disk, Join(list_of_granule_dirs[i], <<"output_dir">>))
    \cup FilesIn(disk, Join(list_of_granule_dirs[i], <<"scratch_dir">>))

ScanOrders(n) == {o \in DistinctSeqs(1..n, n) : Len(o) = n}

\* The dict d with its entries in the order o.
Reordered(d, o) == [i \in 1..Len(d) |-> d[o[i]]]

\* The same-day filter leaves the ids of `kept` whatever the order in which
\* the dict d is scanned.
SameInEveryOrder(d, kept) ==
    \A o \in ScanOrders(Len(d)) :
        KeySet(filter_dict_for_S30_L30_sameDay(Reordered(d, o))) = KeySet(kept)

\* C30 as claimed: for any Working Set and any two iteration orders of its
\* ids, the same-day filter leaves the same set of ids: the set left by the
\* first filter and the set left by the second filter are the sets left
\* under every other order of the dict they were applied to.
C30_OrderIndependent ==
    /\ SameDayFilterRan => SameInEveryOrder(after_populate, after_prefilter)
    /\ SecondFilterRan => SameInEveryOrder(after_metadata, granules_to_download)

\* C30 as it holds: when the Working Set has at most one granule per sensor
\* family for each (date, tile), the set of ids the same-day filter leaves
\* is the same under every iteration order of the Working Set.
C30_OrderIndependentOnePerFamily ==
    /\ (SameDayFilterRan /\ OnePerFamily(after_populate)) =>
           SameInEveryOrder(after_populate, after_prefilter)
    /\ (SecondFilterRan /\ OnePerFamily(after_metadata)) =>
           SameInEveryOrder(after_metadata, granules_to_download)

\* The filter ran on a Working Set of three granules or more with one
\* granule per sensor family, kept a pair and removed a granule.
C30_Witness ==
    /\ SameDayFilterRan
    /\ OnePerFamily(after_populate)
    /\ Len(after_populate) >= 3
    /\ Len(after_prefilter) >= 2
    /\ Len(after_prefilter) < Len(after_populate)

============================================================================
